---- MODULE Spec2Model ----
(***************************************************************************)
(* Model of the consignment-form filler (consignment_form.py): one call of *)
(* fill_consignment_form, with the calls it makes.                         *)
(*                                                                         *)
(* Text is a sequence of one-character strings, so that strip, casefold,   *)
(* substring tests and SequenceMatcher.ratio are computed, not assumed.    *)
(* The rendered page is the environment: it is nondeterministic wherever   *)
(* the code reads it or acts on it.                                        *)
(***************************************************************************)
EXTENDS Integers, Sequences, FiniteSets, TLC

(***************************************************************************)
(* Text helpers (Python str methods used by the source)                    *)
(***************************************************************************)
\* Python None where a text is expected (a value no text equals)
None == <<"None">>

\* LAST_FILLED_FIELD = None
NoField == "None"

UpperChars == <<"A","B","C","D","E","F","G","H","I","J","K","L","M",
                "N","O","P","Q","R","S","T","U","V","W","X","Y","Z">>
LowerChars == <<"a","b","c","d","e","f","g","h","i","j","k","l","m",
                "n","o","p","q","r","s","t","u","v","w","x","y","z">>

UpperSet == {UpperChars[i] : i \in 1..Len(UpperChars)}
LowerSet == {LowerChars[i] : i \in 1..Len(LowerChars)}
ToLower == [c \in UpperSet |-> LowerChars[CHOOSE i \in 1..Len(UpperChars) : UpperChars[i] = c]]
ToUpper == [c \in LowerSet |-> UpperChars[CHOOSE i \in 1..Len(LowerChars) : LowerChars[i] = c]]

\* one character of str.casefold() / str.lower() on ASCII text
LowerChar(c) == IF c \in UpperSet THEN ToLower[c] ELSE c

\* one character of str.upper() on ASCII text
UpperChar(c) == IF c \in LowerSet THEN ToUpper[c] ELSE c

casefold(s) == [i \in 1..Len(s) |-> LowerChar(s[i])]
upper(s) == [i \in 1..Len(s) |-> UpperChar(s[i])]

IsSpace(c) == c = " "

\* str.strip(): drop leading and trailing whitespace
strip(s) ==
    IF \A i \in 1..Len(s) : IsSpace(s[i]) THEN <<>>
    ELSE LET lo == CHOOSE i \in 1..Len(s) :
                      /\ ~IsSpace(s[i])
                      /\ \A j \in 1..(i-1) : IsSpace(s[j])
             hi == CHOOSE i \in 1..Len(s) :
                      /\ ~IsSpace(s[i])
                      /\ \A j \in (i+1)..Len(s) : IsSpace(s[j])
         IN SubSeq(s, lo, hi)

\* (x or "") for a value that may be None
OrEmpty(v) == IF v = None THEN <<>> ELSE v

\* Python truthiness of an Optional[str]
Truthy(v) == v # None /\ v # <<>>

\* needle in hay
IsIn(needle, hay) ==
    \E i \in 0..(Len(hay) - Len(needle)) :
        SubSeq(hay, i + 1, i + Len(needle)) = needle

(***************************************************************************)
(* difflib.SequenceMatcher(None, a, b).ratio()                              *)
(***************************************************************************)
RECURSIVE RunLen(_, _, _, _, _, _)
\* length of the common run of a[i..ahi] and b[j..bhi] starting at i, j
RunLen(a, b, i, j, ahi, bhi) ==
    IF i > ahi \/ j > bhi \/ a[i] # b[j] THEN 0
    ELSE 1 + RunLen(a, b, i + 1, j + 1, ahi, bhi)

\* find_longest_match: the longest block, earliest in a, then earliest in b
LongestMatch(a, b, alo, ahi, blo, bhi) ==
    LET Cand == (alo..ahi) \X (blo..bhi)
        K == [c \in Cand |-> RunLen(a, b, c[1], c[2], ahi, bhi)]
    IN IF Cand = {} THEN <<alo, blo, 0>>
       ELSE LET mx == CHOOSE n \in {K[c] : c \in Cand} : \A d \in Cand : K[d] <= n
                Top == {c \in Cand : K[c] = mx}
                best == CHOOSE c \in Top :
                          \A d \in Top : \/ c[1] < d[1]
                                         \/ (c[1] = d[1] /\ c[2] <= d[2])
            IN <<best[1], best[2], mx>>

RECURSIVE MatchCount(_, _, _, _, _, _)
\* sum of the sizes of get_matching_blocks() within a[alo..ahi], b[blo..bhi]
MatchCount(a, b, alo, ahi, blo, bhi) ==
    IF alo > ahi \/ blo > bhi THEN 0
    ELSE LET m == LongestMatch(a, b, alo, ahi, blo, bhi)
         IN IF m[3] = 0 THEN 0
            ELSE m[3]
                 + MatchCount(a, b, alo, m[1] - 1, blo, m[2] - 1)
                 + MatchCount(a, b, m[1] + m[3], ahi, m[2] + m[3], bhi)

\* similarity_ratio as the exact fraction <<2*M, T>> (1.0 when both are empty)
similarity_ratio(a, b) ==
    LET x == casefold(strip(OrEmpty(a)))
        y == casefold(strip(OrEmpty(b)))
        t == Len(x) + Len(y)
    IN IF t = 0 THEN <<1, 1>>
       ELSE <<2 * MatchCount(x, y, 1, Len(x), 1, Len(y)), t>>

\* FUZZY_THRESHOLD = 0.75 as a fraction
FUZZY_THRESHOLD_NUM == 3
FUZZY_THRESHOLD_DEN == 4

\* r >= FUZZY_THRESHOLD
AtLeastThreshold(r) == r[1] * FUZZY_THRESHOLD_DEN >= FUZZY_THRESHOLD_NUM * r[2]

fuzzy_ok(json_val, erp_val) ==
    IF ~Truthy(json_val) \/ ~Truthy(erp_val) THEN FALSE
    ELSE IF casefold(strip(json_val)) = casefold(strip(erp_val)) THEN TRUE
    ELSE IF IsIn(casefold(strip(json_val)), casefold(strip(erp_val))) THEN TRUE
    ELSE AtLeastThreshold(similarity_ratio(json_val, erp_val))

_equal(a, b) == casefold(strip(OrEmpty(a))) = casefold(strip(OrEmpty(b)))

_contains(hay, needle) ==
    IsIn(casefold(strip(OrEmpty(needle))), casefold(strip(OrEmpty(hay))))

(***************************************************************************)
(* Date normalization                                                      *)
(***************************************************************************)
Digits == {"0","1","2","3","4","5","6","7","8","9"}

RECURSIVE DigitGroupsFrom(_, _, _)
\* re.findall(r"\d+", s), scanning from position i with the open group cur
DigitGroupsFrom(s, i, cur) ==
    IF i > Len(s) THEN (IF cur = <<>> THEN <<>> ELSE <<cur>>)
    ELSE IF s[i] \in Digits THEN DigitGroupsFrom(s, i + 1, Append(cur, s[i]))
    ELSE (IF cur = <<>> THEN <<>> ELSE <<cur>>) \o DigitGroupsFrom(s, i + 1, <<>>)

RECURSIVE zfill(_, _)
zfill(s, w) == IF Len(s) >= w THEN s ELSE zfill(<<"0">> \o s, w)

\* the parts with a 2-digit year left as it is
_parse_date_parts_no_century(s) ==
    IF ~Truthy(s) THEN None
    ELSE LET parts == DigitGroupsFrom(s, 1, <<>>)
         IN IF Len(parts) >= 3
            THEN <<zfill(parts[1], 2), zfill(parts[2], 2), zfill(parts[3], 4)>>
            ELSE None

\* _parse_date_parts, lines 588-598
_parse_date_parts(s) ==
    IF ~Truthy(s) THEN None
    ELSE LET parts == DigitGroupsFrom(s, 1, <<>>)
         IN IF Len(parts) >= 3
            THEN LET y == IF Len(parts[3]) = 2 THEN <<"2","0">> \o parts[3] ELSE parts[3]
                 IN <<zfill(parts[1], 2), zfill(parts[2], 2), zfill(y, 4)>>
            ELSE None

\* re.sub(r"\D", "", s)
DigitsOnly(s) == SelectSeq(s, LAMBDA c : c \in Digits)

_date_equal(a, b) ==
    LET pa == _parse_date_parts(OrEmpty(a))
        pb == _parse_date_parts(OrEmpty(b))
    IN IF pa # None /\ pb # None THEN pa = pb
       ELSE DigitsOnly(OrEmpty(a)) = DigitsOnly(OrEmpty(b))

\* s.replace(old, new) for one-character old and new
replace(s, old, new) == [i \in 1..Len(s) |-> IF s[i] = old THEN new ELSE s[i]]

(***************************************************************************)
(* The form: fields, locators, the document                                *)
(***************************************************************************)
\* the main-form fields in the order fill_consignment_form fills them
FormFields == <<"ConsignmentNo", "Date", "Source", "Destination", "Vehicle",
                "EWayBillNo", "Consignor", "GSTType", "Consignee", "Delivery Address">>

Fields == {FormFields[i] : i \in 1..Len(FormFields)}

AutoFields == {"Source", "Destination", "Vehicle", "Consignor", "Consignee"}

\* the keys read by the Insert Item part of the pass
ItemKeys == {"Invoice No", "ContentName", "GoodsType", "ActualWeight",
             "E-WayBill ValidUpto", "Invoice Date", "E-Way Bill Date",
             "E-Way Bill NO", "Get Rate"}

Keys == Fields \cup ItemKeys

\* the id of each field's locator (By.ID, ...)
LocId(f) ==
    CASE f = "ConsignmentNo"    -> "CNM_VNOSEQ"
      [] f = "Date"             -> "CNM_VDATE"
      [] f = "Source"           -> "CNM_FROM_STN_NAME"
      [] f = "Destination"      -> "CNM_TO_STN_NAME"
      [] f = "Vehicle"          -> "CNM_VEHICLENO"
      [] f = "EWayBillNo"       -> "CNM_EWAYBILLNO"
      [] f = "Consignor"        -> "CNM_CNR_NAME"
      [] f = "GSTType"          -> "CNM_CNE_REGTYPE"
      [] f = "Consignee"        -> "CNM_CNE_NAME"
      [] f = "Delivery Address" -> "CNM_DLV_ADDRESS"

required_fields == {"ConsignmentNo", "Date", "Source", "Destination", "Vehicle", "Consignee"}

\* document values used by the model
Blank          == <<" ">>
DocText        == <<"A","b","c","d"," ">>
DocDate        == <<"5","/","3","/","2","4">>
Registered     == <<"R","e","g","i","s","t","e","r","e","d">>
Unregistered   == <<"U","n","r","e","g","i","s","t","e","r","e","d">>

\* what the page may show in a text box besides what was typed or picked
OptExact       == <<"A","B","C","D">>
OptContains    == <<"A","B","C","D","E">>
PageFuzzy      == <<"A","B","C","X">>
PageOther      == <<"W","X","Y","Z">>
PageDateLong   == <<"0","5",".","0","3",".","2","0","2","4">>

DocValue(k, gst) ==
    IF k = "Date" THEN DocDate
    ELSE IF k = "GSTType" THEN gst
    ELSE DocText

\* number of fields of one pass that are blank in the document or on which
\* the page misbehaves
MaxFaults == 1

\* (data.get(key) or "").strip()
Get(d, k) == strip(OrEmpty(d[k]))

VARIABLES
    data,                   \* the input document: key -> text or None
    page,                   \* the value each form field currently shows
    env,                    \* [bad, budget]: where the page has misbehaved
    pc,                     \* position in fill_consignment_form
    result,                 \* its return value ("none" while running)
    GST_TOGGLED_ONCE,
    CONSIGNEE_TRIED_BOTH,
    LAST_FILLED_FIELD,
    LAST_ALERT_ACCEPTED,
    sav,                    \* the running call of set_autocomplete_verify
    vr,                     \* the running call of verify_and_repair_fields
    hist,                   \* observations of the pass (calls made, verdicts)
    call                    \* a helper function called on its own: arguments,
                            \* locals, result

vars == <<data, page, env, pc, result, GST_TOGGLED_ONCE, CONSIGNEE_TRIED_BOTH,
          LAST_FILLED_FIELD, LAST_ALERT_ACCEPTED, sav, vr, hist, call>>

\* the variables of the fill pass
fillVars == <<data, page, env, pc, result, GST_TOGGLED_ONCE, CONSIGNEE_TRIED_BOTH,
              LAST_FILLED_FIELD, LAST_ALERT_ACCEPTED, sav, vr, hist>>

\* no helper is being called on its own
NoCall == [fn |-> "none"]

flags == <<GST_TOGGLED_ONCE, CONSIGNEE_TRIED_BOTH, LAST_FILLED_FIELD, LAST_ALERT_ACCEPTED>>

(***************************************************************************)
(* The page as environment                                                 *)
(***************************************************************************)
\* the page may misbehave at site s: it did before, or the budget allows it
CanFaultIn(e, s) == s \in e.bad \/ e.budget > 0

FaultedIn(e, s) ==
    IF s \in e.bad THEN e
    ELSE [bad |-> e.bad \cup {s}, budget |-> e.budget - 1]

CanFault(s) == CanFaultIn(env, s)

Faulted(s) == FaultedIn(env, s)

\* what a misbehaving page may show in field f
AdvVals(f) ==
    IF f = "GSTType" THEN {<<>>, Registered, Unregistered}
    ELSE IF f = "Date" THEN {<<>>, PageDateLong, PageOther}
    ELSE IF f \in AutoFields THEN {<<>>, OptContains, PageFuzzy, PageOther}
    ELSE {<<>>, OptExact, PageOther}

\* the values a read of field f may return when the page holds cur
ReadsIn(e, f, cur) == {cur} \cup (IF CanFaultIn(e, f) THEN AdvVals(f) ELSE {})

Reads(f, cur) == ReadsIn(env, f, cur)

\* outcomes of a step the page may refuse at site s
MayFail(s) == IF CanFault(s) THEN BOOLEAN ELSE {TRUE}

EnvAfterIn(e, s, ideal) == IF ideal THEN e ELSE FaultedIn(e, s)

EnvAfter(s, ideal) == EnvAfterIn(env, s, ideal)

IdleSav == [phase |-> "idle"]
IdleVr  == [stage |-> "idle"]

InitHist == [toggles |-> 0, submits |-> 0, dupShown |-> FALSE,
             touched |-> {}, notConfirmed |-> {}, accepted |-> {}, unrepaired |-> {},
             raised |-> NoField, earlier |-> FALSE, new |-> None]

Docs ==
    { [k \in Keys |-> IF k \in B THEN kind ELSE DocValue(k, gst)] :
        B \in {S \in SUBSET Keys : Cardinality(S) <= MaxFaults},
        kind \in {None, Blank},
        gst \in {Registered, Unregistered} }

NumBlank(d) == Cardinality({k \in Keys : ~Truthy(Get(d, k))})

\* fill_consignment_form is entered: flags reset (lines 1052-1055), empty form
Init ==
    /\ data \in Docs
    /\ page = [f \in Fields |-> <<>>]
    /\ env = [bad |-> {}, budget |-> MaxFaults - NumBlank(data)]
    /\ pc = "ConsignmentNo"
    /\ result = "none"
    /\ GST_TOGGLED_ONCE = FALSE
    /\ CONSIGNEE_TRIED_BOTH = FALSE
    /\ LAST_FILLED_FIELD = NoField
    /\ LAST_ALERT_ACCEPTED = FALSE
    /\ sav = IdleSav
    /\ vr = IdleVr
    /\ hist = InitHist
    /\ call = NoCall

Touch(f) == [hist EXCEPT !.touched = @ \cup {f}]

\* an exception left the step of field f: no handler between the call and the
\* outer "try" of fill_consignment_form (line 1060)
Raised(f) == [Touch(f) EXCEPT !.raised = f]

\* an exception that leaves fill_consignment_form and reaches its caller
RaisePropagates ==
    /\ pc' = "raised"
    /\ result' = "none"

\* the outer "except Exception: return False" of fill_consignment_form
Raise ==
    /\ pc' = "done"
    /\ result' = FALSE

(***************************************************************************)
(* set_autocomplete_verify                                                 *)
(***************************************************************************)
\* lines 450-457, 494-499, 530-535, 558-563: is the value read acceptable
ValueAccepted(verify, value, v) ==
    IF verify = "equals" THEN fuzzy_ok(value, v)
    ELSE IsIn(casefold(value), casefold(v))
         \/ AtLeastThreshold(similarity_ratio(value, v))

\* lines 471-477: acceptance after safe_click failed
ClickFailAccepted(verify, value, v) ==
    \/ (verify = "equals" /\ fuzzy_ok(value, v))
    \/ (verify = "contains" /\ IsIn(casefold(value), casefold(v)))

\* a loop that stops one attempt short (range(1, max_attempts))
LoopExhaustedEarly(attempt, max_attempts) == attempt + 1 >= max_attempts

\* a loop that runs one attempt more (range(1, max_attempts + 2))
LoopExhaustedLate(attempt, max_attempts) == attempt > max_attempts

\* "for attempt in range(1, max_attempts + 1)": was this the last attempt
LoopExhausted(attempt, max_attempts) == attempt >= max_attempts

\* the alert counts only when the value read afterwards is good
AlertAcceptNeedsValue(final_val2_ok) == final_val2_ok

\* lines 503-515: a pick with an accepted alert is a success whatever is read
AlertAcceptResult(final_val2_ok) == TRUE

\* a pick in this call is a success whatever the field shows
SelectedAnyValue(matched_once, final_val) == matched_once

\* lines 540-544: a pick in this call and an empty field are a success
SelectedButEmpty(matched_once, final_val) == matched_once /\ final_val = <<>>

\* the call set_autocomplete_verify(locator of f, value, verify, max_attempts)
SavCall(f, value, verify, max_attempts) ==
    IF strip(OrEmpty(value)) = <<>>
    THEN [phase |-> "ret", field |-> f, value |-> <<>>, verify |-> verify,
          max_attempts |-> max_attempts, attempt |-> 0, matched_once |-> FALSE,
          ret |-> FALSE, typings |-> 0, seen |-> None, picked |-> FALSE,
          pickAlert |-> FALSE]
    ELSE [phase |-> "begin", field |-> f, value |-> strip(OrEmpty(value)),
          verify |-> verify, max_attempts |-> max_attempts, attempt |-> 1,
          matched_once |-> FALSE, ret |-> FALSE, typings |-> 0, seen |-> None,
          picked |-> FALSE, pickAlert |-> FALSE]

\* "continue" / falling out of the loop body: next attempt or the final read
SavNextAttempt(fr) ==
    IF LoopExhausted(fr.attempt, fr.max_attempts)
    THEN [fr EXCEPT !.phase = "final", !.picked = FALSE]
    ELSE [fr EXCEPT !.phase = "begin", !.attempt = @ + 1, !.picked = FALSE,
                    !.pickAlert = FALSE]

SavReturn(fr, r) == [fr EXCEPT !.phase = "ret", !.ret = r]

\* a typing that leaves what the box held in front of the text
fast_type_append(cur, text, clear) == cur \o text

\* fast_type, lines 236-258: what the box holds after the keys were sent
fast_type(cur, text, clear) == IF clear THEN text ELSE cur \o text

\* lines 432-483: start of an attempt, up to and including fast_type
SavBegin ==
    /\ sav.phase = "begin"
    /\ LET f == sav.field IN
       /\ \/ \* the element is not present within 6 s: continue
             /\ CanFault(f)
             /\ env' = Faulted(f)
             /\ sav' = SavNextAttempt(sav)
             /\ UNCHANGED <<page, LAST_FILLED_FIELD, hist>>
          \/ \* the current value is already good: return True
             \E v \in Reads(f, page[f]) :
                /\ strip(v) # <<>>
                /\ ValueAccepted(sav.verify, sav.value, strip(v))
                /\ env' = EnvAfter(f, v = page[f])
                /\ page' = [page EXCEPT ![f] = v]
                /\ sav' = SavReturn([sav EXCEPT !.seen = strip(v)], TRUE)
                /\ LAST_FILLED_FIELD' = LocId(f)
                /\ UNCHANGED hist
          \/ \* safe_click fails; the value is read again
             \E v \in Reads(f, page[f]) :
                /\ CanFault(f)
                /\ ~(strip(v) # <<>> /\ ValueAccepted(sav.verify, sav.value, strip(v)))
                /\ env' = Faulted(f)
                /\ hist' = Touch(f)
                /\ \E v2 \in {v} \cup AdvVals(f) :
                      /\ page' = [page EXCEPT ![f] = v2]
                      /\ IF strip(v2) # <<>>
                            /\ ClickFailAccepted(sav.verify, sav.value, strip(v2))
                         THEN /\ sav' = SavReturn([sav EXCEPT !.seen = strip(v2)], TRUE)
                              /\ LAST_FILLED_FIELD' = LocId(f)
                         ELSE /\ sav' = SavNextAttempt(sav)
                              /\ UNCHANGED LAST_FILLED_FIELD
          \/ \* safe_click succeeds, fast_type raises (the element left the page)
             \E v \in Reads(f, page[f]) :
                /\ CanFault(f)
                /\ ~(strip(v) # <<>> /\ ValueAccepted(sav.verify, sav.value, strip(v)))
                /\ env' = Faulted(f)
                /\ hist' = Touch(f)
                /\ page' = [page EXCEPT ![f] = v]
                /\ sav' = SavNextAttempt([sav EXCEPT !.typings = @ + 1])
                /\ UNCHANGED LAST_FILLED_FIELD
          \/ \* safe_click succeeds, fast_type clears the field and types the value
             \E v \in Reads(f, page[f]) :
                /\ ~(strip(v) # <<>> /\ ValueAccepted(sav.verify, sav.value, strip(v)))
                /\ env' = EnvAfter(f, v = page[f])
                /\ hist' = Touch(f)
                /\ page' = [page EXCEPT ![f] = fast_type(v, sav.value, TRUE)]
                /\ sav' = [sav EXCEPT !.phase = "pick", !.typings = @ + 1]
                /\ UNCHANGED LAST_FILLED_FIELD
    /\ LAST_ALERT_ACCEPTED' = FALSE
    /\ UNCHANGED <<data, pc, result, GST_TOGGLED_ONCE, CONSIGNEE_TRIED_BOTH, vr>>
    /\ UNCHANGED call

\* the suggestion lists the page may offer for a typed text
OptionLists(f) ==
    {<<OptExact>>} \cup
    (IF CanFault(f)
     THEN {<<>>, <<OptContains>>, <<PageOther>>, <<OptContains, OptExact>>}
     ELSE {})

\* pick_from_autocomplete, lines 365-409: the index of the option clicked, or 0
pick_from_autocomplete(options, target, mode) ==
    LET target_up == upper(strip(OrEmpty(target)))
        Txt(i) == upper(strip(options[i]))
        exact == {i \in 1..Len(options) : Txt(i) = target_up}
        cont  == {i \in 1..Len(options) : IsIn(target_up, Txt(i))}
        First(S) == CHOOSE i \in S : \A j \in S : i <= j
    IN IF target_up = <<>> \/ options = <<>> THEN 0
       ELSE IF exact # {} THEN First(exact)
       ELSE IF mode = "contains" /\ cont # {} THEN First(cont)
       ELSE 0

\* lines 484-515: the pick and what follows it.  pick_from_autocomplete raises
\* while reading the options, or after the click in wait_until_hidden.
SavPick ==
    /\ sav.phase = "pick"
    /\ LET f == sav.field IN
       \/ \* reading an option raises (stale list): the attempt is consumed
          /\ CanFault(f)
          /\ env' = Faulted(f)
          /\ sav' = SavNextAttempt(sav)
          /\ LAST_ALERT_ACCEPTED' = FALSE
          /\ UNCHANGED <<page, LAST_FILLED_FIELD>>
       \/ \* an option is clicked and its alert accepted (lines 384, 401), then
          \* wait_until_hidden raises something other than a timeout (lines
          \* 174-179): the attempt is consumed with the flag set
          \E options \in OptionLists(f) :
            LET k == pick_from_autocomplete(options, sav.value, "contains") IN
            /\ k # 0
            /\ CanFault(f)
            /\ env' = Faulted(f)
            /\ page' = [page EXCEPT ![f] = options[k]]
            /\ sav' = SavNextAttempt([sav EXCEPT !.pickAlert = TRUE])
            /\ LAST_ALERT_ACCEPTED' = TRUE
            /\ UNCHANGED LAST_FILLED_FIELD
       \/ \E options \in OptionLists(f) :
            LET k == pick_from_autocomplete(options, sav.value, "contains") IN
            IF k = 0
            THEN \* no option picked: on to the Enter+Tab fallback
                 /\ env' = EnvAfter(f, options = <<OptExact>>)
                 /\ sav' = [sav EXCEPT !.phase = "fallback"]
                 /\ LAST_ALERT_ACCEPTED' = FALSE
                 /\ UNCHANGED <<page, LAST_FILLED_FIELD>>
            ELSE \E alert \in {FALSE} \cup (IF CanFault(f) THEN {TRUE} ELSE {}),
                    v \in Reads(f, options[k]) :
                    LET good == strip(v) # <<>>
                                /\ ValueAccepted(sav.verify, sav.value, strip(v))
                        fr == [sav EXCEPT !.matched_once = TRUE, !.picked = TRUE,
                                          !.seen = strip(v), !.pickAlert = alert]
                    IN /\ env' = EnvAfter(f, options = <<OptExact>> /\ ~alert
                                             /\ v = options[k])
                       /\ page' = [page EXCEPT ![f] = v]
                       /\ LAST_ALERT_ACCEPTED' = alert
                       /\ IF good \/ (alert /\ AlertAcceptResult(good))
                          THEN /\ sav' = SavReturn(fr, TRUE)
                               /\ LAST_FILLED_FIELD' = LocId(f)
                          ELSE /\ sav' = [fr EXCEPT !.phase = "fallback"]
                               /\ UNCHANGED LAST_FILLED_FIELD
    /\ UNCHANGED <<data, pc, result, GST_TOGGLED_ONCE, CONSIGNEE_TRIED_BOTH, vr, hist>>
    /\ UNCHANGED call

\* lines 517-548: Enter+Tab, then the value is read and judged
SavFallback ==
    /\ sav.phase = "fallback"
    /\ LET f == sav.field IN
       \E v \in Reads(f, page[f]) :
          /\ env' = EnvAfter(f, v = page[f])
          /\ page' = [page EXCEPT ![f] = v]
          /\ IF ValueAccepted(sav.verify, sav.value, strip(v))
                \/ SelectedButEmpty(sav.matched_once, strip(v))
             THEN /\ sav' = SavReturn([sav EXCEPT !.seen = strip(v)], TRUE)
                  /\ LAST_FILLED_FIELD' = LocId(f)
             ELSE /\ sav' = SavNextAttempt([sav EXCEPT !.seen = strip(v)])
                  /\ UNCHANGED LAST_FILLED_FIELD
    /\ UNCHANGED <<data, pc, result, GST_TOGGLED_ONCE, CONSIGNEE_TRIED_BOTH,
                   LAST_ALERT_ACCEPTED, vr, hist>>
    /\ UNCHANGED call

\* a final step that returns what the last read says and nothing else
FinalReadOnly(value_ok, alert_accepted) == value_ok

\* lines 555-574: True when the last read is good, else the alert flag
FinalResult(value_ok, alert_accepted) == value_ok \/ alert_accepted

\* lines 554-574: after the last attempt, one more read, then the alert flag
SavFinal ==
    /\ sav.phase = "final"
    /\ LET f == sav.field IN
       \/ \* find_element raises: the read is skipped
          /\ CanFault(f)
          /\ env' = Faulted(f)
          /\ LET r == FinalResult(FALSE, LAST_ALERT_ACCEPTED)
             IN /\ sav' = SavReturn([sav EXCEPT !.seen = None], r)
                /\ LAST_FILLED_FIELD' = IF r THEN LocId(f) ELSE LAST_FILLED_FIELD
          /\ UNCHANGED page
       \/ \E v \in Reads(f, page[f]) :
            /\ env' = EnvAfter(f, v = page[f])
            /\ page' = [page EXCEPT ![f] = v]
            /\ LET r == FinalResult(ValueAccepted(sav.verify, sav.value, strip(v)),
                                    LAST_ALERT_ACCEPTED)
               IN /\ sav' = SavReturn([sav EXCEPT !.seen = strip(v)], r)
                  /\ LAST_FILLED_FIELD' = IF r THEN LocId(f) ELSE LAST_FILLED_FIELD
    /\ UNCHANGED <<data, pc, result, GST_TOGGLED_ONCE, CONSIGNEE_TRIED_BOTH,
                   LAST_ALERT_ACCEPTED, vr, hist>>
    /\ UNCHANGED call

(***************************************************************************)
(* fill_consignment_form: the main-form fields                             *)
(***************************************************************************)
\* the popup loops "for _ in range(2): if not _close_any_popup(...)": accepting
\* a native alert sets LAST_ALERT_ACCEPTED (line 288)
PopupLoopFlags == {LAST_ALERT_ACCEPTED} \cup (IF CanFault("Popup") THEN {TRUE} ELSE {})

\* wait_until_value, lines 144-158: some poll read val with val.casefold() == exp
wait_until_value(val, expected) == casefold(val) = casefold(OrEmpty(expected))

\* lines 1061-1067
FillConsignmentNo ==
    /\ pc = "ConsignmentNo"
    /\ LET cons_no == Get(data, "ConsignmentNo") IN
       IF cons_no = <<>>
       THEN /\ pc' = "Date"
            /\ UNCHANGED <<page, env, result, LAST_FILLED_FIELD, hist>>
       ELSE \/ \* safe_type raises: the element never appeared
               /\ CanFault("ConsignmentNo")
               /\ env' = Faulted("ConsignmentNo")
               /\ hist' = Raised("ConsignmentNo")
               /\ Raise
               /\ UNCHANGED <<page, LAST_FILLED_FIELD>>
            \/ \E v \in Reads("ConsignmentNo", cons_no) :
                  /\ env' = EnvAfter("ConsignmentNo", v = cons_no)
                  /\ page' = [page EXCEPT !["ConsignmentNo"] = v]
                  /\ hist' = [Touch("ConsignmentNo") EXCEPT !.accepted = @ \cup {"ConsignmentNo"}]
                  /\ LAST_FILLED_FIELD' = "ConsignmentNo"
                  /\ pc' = "Date"
                  /\ UNCHANGED result
    /\ UNCHANGED <<data, GST_TOGGLED_ONCE, CONSIGNEE_TRIED_BOTH, LAST_ALERT_ACCEPTED, sav, vr>>
    /\ UNCHANGED call

\* the page shows, once the identifier is committed, that the record exists;
\* fill_consignment_form has no probe for it (lines 1060-1080)
DuplicateAffordance ==
    /\ pc = "Date"
    /\ "ConsignmentNo" \in hist.touched
    /\ ~hist.dupShown
    /\ CanFault("Duplicate")
    /\ env' = Faulted("Duplicate")
    /\ hist' = [hist EXCEPT !.dupShown = TRUE]
    /\ UNCHANGED <<data, page, pc, result, flags, sav, vr>>
    /\ UNCHANGED call

\* lines 1069-1080
FillDate ==
    /\ pc = "Date"
    /\ LET cons_date == Get(data, "Date") IN
       IF cons_date = <<>>
       THEN /\ pc' = "Source"
            /\ UNCHANGED <<page, env, result, LAST_FILLED_FIELD, hist>>
       ELSE \/ /\ CanFault("Date")
               /\ env' = Faulted("Date")
               /\ hist' = Raised("Date")
               /\ Raise
               /\ UNCHANGED <<page, LAST_FILLED_FIELD>>
            \/ \E v \in Reads("Date", cons_date) :
                  /\ env' = EnvAfter("Date", v = cons_date)
                  /\ page' = [page EXCEPT !["Date"] = v]
                  /\ hist' = [Touch("Date") EXCEPT !.accepted = @ \cup {"Date"}]
                  /\ LAST_FILLED_FIELD' = "Date"
                  /\ pc' = "Source"
                  /\ UNCHANGED result
    /\ UNCHANGED <<data, GST_TOGGLED_ONCE, CONSIGNEE_TRIED_BOTH, LAST_ALERT_ACCEPTED, sav, vr>>
    /\ UNCHANGED call

\* the step after each main-form step
\* an order that leaves GSTType out
NextStepWithoutGST(f) ==
    CASE f = "Source"      -> "Destination"
      [] f = "Destination" -> "Vehicle"
      [] f = "Vehicle"     -> "EWayBillNo"
      [] f = "Consignor"   -> "Consignee"

NextStep(f) ==
    CASE f = "Source"      -> "Destination"
      [] f = "Destination" -> "Vehicle"
      [] f = "Vehicle"     -> "EWayBillNo"
      [] f = "Consignor"   -> "GSTType"

\* verify= of the four calls at lines 1086, 1095, 1104, 1124
VerifyMode(f) == IF f = "Consignor" THEN "contains" ELSE "equals"

\* max_attempts=6 at lines 1086, 1095, 1104, 1124
FillMaxAttempts == 6

\* lines 1082-1108, 1121-1128: the call of set_autocomplete_verify
FillAutocomplete(f) ==
    /\ pc = f
    /\ sav.phase = "idle"
    /\ IF Get(data, f) = <<>>
       THEN /\ pc' = NextStep(f)
            /\ UNCHANGED sav
       ELSE /\ sav' = SavCall(f, Get(data, f), VerifyMode(f), FillMaxAttempts)
            /\ UNCHANGED pc
    /\ UNCHANGED <<data, page, env, result, flags, vr, hist>>
    /\ UNCHANGED call

\* lines 1087-1090 and alike: "if ok: LAST_FILLED_FIELD = ..."
AutocompleteReturn(f) ==
    /\ pc = f
    /\ sav.phase = "ret"
    /\ LAST_FILLED_FIELD' = IF sav.ret THEN f ELSE LAST_FILLED_FIELD
    /\ hist' = IF sav.ret THEN [hist EXCEPT !.accepted = @ \cup {f}]
               ELSE [hist EXCEPT !.notConfirmed = @ \cup {f}]
    /\ pc' = NextStep(f)
    /\ sav' = IdleSav
    /\ UNCHANGED <<data, page, env, result, GST_TOGGLED_ONCE, CONSIGNEE_TRIED_BOTH,
                   LAST_ALERT_ACCEPTED, vr>>
    /\ UNCHANGED call

\* lines 1110-1119
FillEWayBillNo ==
    /\ pc = "EWayBillNo"
    /\ LET eway_val == Get(data, "EWayBillNo") IN
       IF eway_val = <<>>
       THEN /\ pc' = "Consignor"
            /\ UNCHANGED <<page, env, result, LAST_FILLED_FIELD, hist>>
       ELSE \/ /\ CanFault("EWayBillNo")
               /\ env' = Faulted("EWayBillNo")
               /\ hist' = Raised("EWayBillNo")
               /\ Raise
               /\ UNCHANGED <<page, LAST_FILLED_FIELD>>
            \/ \E v \in Reads("EWayBillNo", eway_val) :
                  /\ env' = EnvAfter("EWayBillNo", v = eway_val)
                  /\ page' = [page EXCEPT !["EWayBillNo"] = v]
                  /\ IF wait_until_value(v, eway_val)
                     THEN /\ LAST_FILLED_FIELD' = "EWayBillNo"
                          /\ hist' = [Touch("EWayBillNo") EXCEPT !.accepted = @ \cup {"EWayBillNo"}]
                     ELSE /\ UNCHANGED LAST_FILLED_FIELD
                          /\ hist' = [Touch("EWayBillNo") EXCEPT !.notConfirmed = @ \cup {"EWayBillNo"}]
                  /\ pc' = "Consignor"
                  /\ UNCHANGED result
    /\ UNCHANGED <<data, GST_TOGGLED_ONCE, CONSIGNEE_TRIED_BOTH, LAST_ALERT_ACCEPTED, sav, vr>>
    /\ UNCHANGED call

\* _ensure_select, lines 865-875, after js_set_select_and_fire put v in the box
ensure_select_ok(v, expected) == _equal(v, expected)

\* lines 1130-1138
FillGSTType ==
    /\ pc = "GSTType"
    /\ LET gst_type_val == Get(data, "GSTType") IN
       IF gst_type_val = <<>>
       THEN /\ pc' = "Consignee"
            /\ UNCHANGED <<page, env, result, LAST_FILLED_FIELD, hist>>
       ELSE \/ \* js_set_select_and_fire raises: the select never appeared
               /\ CanFault("GSTType")
               /\ env' = Faulted("GSTType")
               /\ hist' = Raised("GSTType")
               /\ Raise
               /\ UNCHANGED <<page, LAST_FILLED_FIELD>>
            \/ \E v \in Reads("GSTType", gst_type_val) :
                  /\ env' = EnvAfter("GSTType", v = gst_type_val)
                  /\ page' = [page EXCEPT !["GSTType"] = v]
                  /\ IF ensure_select_ok(v, gst_type_val)
                     THEN /\ LAST_FILLED_FIELD' = "GSTType"
                          /\ hist' = [Touch("GSTType") EXCEPT !.accepted = @ \cup {"GSTType"}]
                     ELSE /\ UNCHANGED LAST_FILLED_FIELD
                          /\ hist' = [Touch("GSTType") EXCEPT !.notConfirmed = @ \cup {"GSTType"}]
                  /\ pc' = "Consignee"
                  /\ UNCHANGED result
    /\ UNCHANGED <<data, GST_TOGGLED_ONCE, CONSIGNEE_TRIED_BOTH, LAST_ALERT_ACCEPTED, sav, vr>>
    /\ UNCHANGED call

(***************************************************************************)
(* The GST toggle and the Consignee step                                   *)
(***************************************************************************)
\* _toggle_gst_and_set, lines 878-879: the value toggled to
ToggleTarget(current_expected) ==
    IF IsIn(<<"u","n","r","e","g","i","s","t","e","r">>,
            casefold(strip(OrEmpty(current_expected))))
    THEN Registered ELSE Unregistered

\* _toggle_gst_and_set, lines 881-895: [val: what the select shows afterwards,
\* new: the value returned (None when the toggle raised or did not verify),
\* env: the page's record afterwards]
ToggleOutcomes(e, current_expected) ==
    LET new == ToggleTarget(current_expected) IN
    (IF CanFaultIn(e, "GSTType")
     THEN {[val |-> page["GSTType"], new |-> None, env |-> FaultedIn(e, "GSTType")]}
     ELSE {})
    \cup
    {[val |-> v,
      new |-> IF casefold(strip(v)) = casefold(new) THEN new ELSE None,
      env |-> EnvAfterIn(e, "GSTType", v = new)] : v \in ReadsIn(e, "GSTType", new)}

\* a document nothing is written to
DocUntouched(d, new_gst) == d

\* lines 981, 1173: data["GSTType"] = new_gst
DocAfterToggle(d, new_gst) == [d EXCEPT !["GSTType"] = new_gst]

\* max_attempts=3 at lines 1143, 1174
ConsigneeMaxAttempts == 3

\* the toggle branch leaves CONSIGNEE_TRIED_BOTH as it was
TriedBothNotRecorded == FALSE

\* line 1171: the toggle branch records that both GST types were tried
TriedBothAfterToggle == TRUE

\* lines 1191-1215: Enter and Tab on the Consignee box, click into Delivery Address
CommitConsignee(h) == [h EXCEPT !.touched = @ \cup {"Delivery Address"}]

Judge(h, f, ok) ==
    IF ok THEN [h EXCEPT !.accepted = @ \cup {f}]
    ELSE [h EXCEPT !.notConfirmed = @ \cup {f}]

\* lines 1141-1143 and 1219-1220
FillConsignee ==
    /\ pc = "Consignee"
    /\ sav.phase = "idle"
    /\ IF Get(data, "Consignee") = <<>>
       THEN /\ CONSIGNEE_TRIED_BOTH' = TRUE
            /\ pc' = "Delivery Address"
            /\ UNCHANGED sav
       ELSE /\ sav' = SavCall("Consignee", Get(data, "Consignee"), "equals",
                              ConsigneeMaxAttempts)
            /\ UNCHANGED <<pc, CONSIGNEE_TRIED_BOTH>>
    /\ UNCHANGED <<data, page, env, result, GST_TOGGLED_ONCE, LAST_FILLED_FIELD,
                   LAST_ALERT_ACCEPTED, vr, hist>>
    /\ UNCHANGED call

\* lines 1144-1189: the first call returned
ConsigneeReturn ==
    /\ pc = "Consignee"
    /\ sav.phase = "ret"
    /\ IF sav.ret
       THEN /\ CONSIGNEE_TRIED_BOTH' = TRUE
            /\ LAST_FILLED_FIELD' = "Consignee"
            /\ hist' = CommitConsignee(Judge(hist, "Consignee", TRUE))
            /\ pc' = "Delivery Address"
            /\ sav' = IdleSav
            /\ UNCHANGED <<data, page, env, GST_TOGGLED_ONCE>>
       ELSE \E v \in Reads("Consignee", page["Consignee"]) :
            LET final == strip(v)
                e1 == EnvAfter("Consignee", v = page["Consignee"])
                gst_type_val == Get(data, "GSTType")
            IN
            IF final # <<>>
            THEN \* a value is shown: accepted if fuzzy-equal, else low similarity
                 /\ CONSIGNEE_TRIED_BOTH' = TRUE
                 /\ LAST_FILLED_FIELD' = IF fuzzy_ok(Get(data, "Consignee"), final)
                                         THEN "Consignee" ELSE LAST_FILLED_FIELD
                 /\ hist' = CommitConsignee(Judge(hist, "Consignee",
                                fuzzy_ok(Get(data, "Consignee"), final)))
                 /\ page' = [page EXCEPT !["Consignee"] = v]
                 /\ env' = e1
                 /\ pc' = "Delivery Address"
                 /\ sav' = IdleSav
                 /\ UNCHANGED <<data, GST_TOGGLED_ONCE>>
            ELSE IF LAST_ALERT_ACCEPTED
            THEN /\ CONSIGNEE_TRIED_BOTH' = TRUE
                 /\ LAST_FILLED_FIELD' = "Consignee"
                 /\ hist' = CommitConsignee(Judge(hist, "Consignee", TRUE))
                 /\ page' = [page EXCEPT !["Consignee"] = v]
                 /\ env' = e1
                 /\ pc' = "Delivery Address"
                 /\ sav' = IdleSav
                 /\ UNCHANGED <<data, GST_TOGGLED_ONCE>>
            ELSE IF ~GST_TOGGLED_ONCE
            THEN \* toggle the GST type once and try Consignee again
                 \E t \in ToggleOutcomes(e1, gst_type_val) :
                    /\ GST_TOGGLED_ONCE' = TRUE
                    /\ CONSIGNEE_TRIED_BOTH' = (CONSIGNEE_TRIED_BOTH \/ TriedBothAfterToggle)
                    /\ page' = [page EXCEPT !["Consignee"] = v, !["GSTType"] = t.val]
                    /\ env' = t.env
                    /\ UNCHANGED LAST_FILLED_FIELD
                    /\ IF t.new # None
                       THEN /\ data' = DocAfterToggle(data, t.new)
                            /\ sav' = SavCall("Consignee", Get(data, "Consignee"),
                                              "equals", ConsigneeMaxAttempts)
                            /\ pc' = "ConsigneeToggled"
                            /\ hist' = [hist EXCEPT !.toggles = @ + 1,
                                                    !.new = t.new,
                                                    !.touched = @ \cup {"GSTType"}]
                       ELSE /\ pc' = "Delivery Address"
                            /\ sav' = IdleSav
                            /\ hist' = CommitConsignee(Judge(
                                          [hist EXCEPT !.toggles = @ + 1,
                                                       !.new = t.new,
                                                       !.touched = @ \cup {"GSTType"}],
                                          "Consignee", FALSE))
                            /\ UNCHANGED data
            ELSE /\ CONSIGNEE_TRIED_BOTH' = TRUE
                 /\ hist' = CommitConsignee(Judge(hist, "Consignee", FALSE))
                 /\ page' = [page EXCEPT !["Consignee"] = v]
                 /\ env' = e1
                 /\ pc' = "Delivery Address"
                 /\ sav' = IdleSav
                 /\ UNCHANGED <<data, GST_TOGGLED_ONCE, LAST_FILLED_FIELD>>
    /\ UNCHANGED <<result, LAST_ALERT_ACCEPTED, vr>>
    /\ UNCHANGED call

\* lines 1174-1183: the call after the toggle returned
ConsigneeToggledReturn ==
    /\ pc = "ConsigneeToggled"
    /\ sav.phase = "ret"
    /\ LET ok == sav.ret \/ LAST_ALERT_ACCEPTED IN
       /\ LAST_FILLED_FIELD' = IF ok THEN "Consignee" ELSE LAST_FILLED_FIELD
       /\ hist' = CommitConsignee(Judge(hist, "Consignee", ok))
    /\ pc' = "Delivery Address"
    /\ sav' = IdleSav
    /\ UNCHANGED <<data, page, env, result, GST_TOGGLED_ONCE, CONSIGNEE_TRIED_BOTH,
                   LAST_ALERT_ACCEPTED, vr>>
    /\ UNCHANGED call

\* lines 1222-1252
FillDeliveryAddress ==
    /\ pc = "Delivery Address"
    /\ \E flag \in PopupLoopFlags :
       LET e0 == EnvAfterIn(env, "Popup", flag = LAST_ALERT_ACCEPTED)
           delivery_val == Get(data, "Delivery Address")
           f == "Delivery Address"
       IN
       /\ LAST_ALERT_ACCEPTED' = flag
       /\ IF delivery_val = <<>>
          THEN /\ pc' = "Verify"
               /\ env' = e0
               /\ UNCHANGED <<page, result, LAST_FILLED_FIELD, hist>>
          ELSE \/ \* the box never becomes clickable: the wait raises
                  /\ CanFaultIn(e0, f)
                  /\ env' = FaultedIn(e0, f)
                  /\ hist' = Raised(f)
                  /\ Raise
                  /\ UNCHANGED <<page, LAST_FILLED_FIELD>>
               \/ \E cur \in ReadsIn(e0, f, page[f]) :
                    LET e1 == EnvAfterIn(e0, f, cur = page[f]) IN
                    IF IsIn(casefold(delivery_val), casefold(strip(cur)))
                    THEN \* already correct
                         /\ page' = [page EXCEPT ![f] = cur]
                         /\ env' = e1
                         /\ LAST_FILLED_FIELD' = f
                         /\ hist' = Judge(hist, f, TRUE)
                         /\ pc' = "Verify"
                         /\ UNCHANGED result
                    ELSE \E v \in ReadsIn(e1, f, delivery_val) :
                         /\ page' = [page EXCEPT ![f] = v]
                         /\ env' = EnvAfterIn(e1, f, v = delivery_val)
                         /\ LAST_FILLED_FIELD' = f
                         /\ hist' = Judge(Touch(f), f, TRUE)
                         /\ pc' = "Verify"
                         /\ UNCHANGED result
    /\ UNCHANGED <<data, GST_TOGGLED_ONCE, CONSIGNEE_TRIED_BOTH, sav, vr>>
    /\ UNCHANGED call

(***************************************************************************)
(* verify_and_repair_fields                                                *)
(***************************************************************************)
\* kind= and verify= of the add_field calls, lines 918-927
Kind(key) ==
    IF key \in AutoFields THEN "auto"
    ELSE IF key = "GSTType" THEN "select"
    ELSE "text"

VrVerify(key) ==
    IF key = "Date" THEN "date"
    ELSE IF key = "Consignor" THEN "contains"
    ELSE "equals"

\* an add_field that looks at the value only
add_field_without_skip(key, d, tried_both) ==
    Get(d, key) # <<>>

\* add_field, lines 902-916: is the key appended to FIELDS
add_field(key, d, tried_both) ==
    /\ ~(key = "Consignee" /\ tried_both)
    /\ Get(d, key) # <<>>

\* FIELDS, lines 918-927: the keys kept, in order, each with the value captured
FIELDS(d, tried_both) ==
    LET kept == SelectSeq(FormFields, LAMBDA k : add_field(k, d, tried_both))
    IN [i \in 1..Len(kept) |-> [key |-> kept[i], value |-> Get(d, kept[i])]]

\* lines 937-952: is the value read accepted as it is
FieldVerified(key, verify_mode, current, expected) ==
    IF key = "GSTType" THEN _equal(current, expected)
    ELSE IF verify_mode = "date" THEN _date_equal(current, expected)
    ELSE IF verify_mode = "contains"
         THEN _contains(current, expected)
              \/ AtLeastThreshold(similarity_ratio(current, expected))
    ELSE _equal(current, expected) \/ fuzzy_ok(expected, current)

\* max_passes=3 at line 1255
max_passes == 3

\* max_attempts of _ensure_autocomplete, line 861
EnsureMaxAttempts == 5

\* _ensure_text, lines 853-859: safe_type (its exception swallowed), then
\* wait_until_value.  [val: the box afterwards, ok: the result, env]
EnsureTextOutcomes(e, key, cur, text) ==
    (IF CanFaultIn(e, key)
     THEN {[val |-> v, ok |-> wait_until_value(v, text), env |-> FaultedIn(e, key)] :
              v \in {cur} \cup AdvVals(key)}
     ELSE {})
    \cup
    {[val |-> v, ok |-> wait_until_value(v, text), env |-> EnvAfterIn(e, key, v = text)] :
        v \in ReadsIn(e, key, text)}

\* lines 962-968: the repair of a text field; a date is tried in its other notation
TextRepairOutcomes(e, key, cur, expected, verify_mode) ==
    IF verify_mode = "date"
    THEN LET alt == IF IsIn(<<".">>, expected) THEN replace(expected, ".", "/")
                    ELSE replace(expected, "/", ".")
         IN UNION { IF o.ok THEN {o} ELSE EnsureTextOutcomes(o.env, key, o.val, alt) :
                      o \in EnsureTextOutcomes(e, key, cur, expected) }
    ELSE EnsureTextOutcomes(e, key, cur, expected)

\* _ensure_select inside the try of lines 960-1004: a raise counts as not ok
EnsureSelectOutcomes(e, cur, expected) ==
    (IF CanFaultIn(e, "GSTType")
     THEN {[val |-> cur, ok |-> FALSE, env |-> FaultedIn(e, "GSTType")]}
     ELSE {})
    \cup
    {[val |-> v, ok |-> ensure_select_ok(v, expected),
      env |-> EnvAfterIn(e, "GSTType", v = expected)] :
        v \in ReadsIn(e, "GSTType", expected)}

\* lines 973-975: may the toggle fallback fire for this field
ToggleGuard(key, final, tried_both) ==
    key = "Consignee" /\ final = <<>> /\ ~tried_both

VrKey == vr.fields[vr.i].key
VrExpected == vr.fields[vr.i].value

\* the end of one iteration of "for f in FIELDS" (lines 1006-1014)
VrAdvance(fr, key, ok) ==
    [fr EXCEPT !.stage = "check", !.i = @ + 1,
               !.failures = IF ok THEN @ ELSE @ \cup {key}]

\* line 1255 / lines 897-927: the call, FIELDS is built
VerifyStart ==
    /\ pc = "Verify"
    /\ vr.stage = "idle"
    /\ vr' = [stage |-> "check", fields |-> FIELDS(data, CONSIGNEE_TRIED_BOTH),
              p |-> 1, i |-> 1, failures |-> {}]
    /\ UNCHANGED <<data, page, env, pc, result, flags, sav, hist>>
    /\ UNCHANGED call

\* lines 931-1014 for one field, up to the call of _ensure_autocomplete
VerifyField ==
    /\ pc = "Verify"
    /\ vr.stage = "check"
    /\ vr.i <= Len(vr.fields)
    /\ LET key == VrKey
           expected == VrExpected
           verify_mode == VrVerify(key)
       IN
       \E v \in Reads(key, page[key]) :
          LET e1 == EnvAfter(key, v = page[key]) IN
          IF FieldVerified(key, verify_mode, strip(v), expected)
          THEN /\ LAST_FILLED_FIELD' = key
               /\ page' = [page EXCEPT ![key] = v]
               /\ env' = e1
               /\ vr' = [vr EXCEPT !.i = @ + 1]
               /\ UNCHANGED <<sav, hist>>
          ELSE IF Kind(key) = "text"
          THEN \E o \in TextRepairOutcomes(e1, key, v, expected, verify_mode) :
                  /\ page' = [page EXCEPT ![key] = o.val]
                  /\ env' = o.env
                  /\ vr' = VrAdvance(vr, key, o.ok)
                  /\ hist' = Touch(key)
                  /\ UNCHANGED <<LAST_FILLED_FIELD, sav>>
          ELSE IF Kind(key) = "select"
          THEN \E o \in EnsureSelectOutcomes(e1, v, expected) :
                  /\ page' = [page EXCEPT ![key] = o.val]
                  /\ env' = o.env
                  /\ vr' = VrAdvance(vr, key, o.ok)
                  /\ hist' = Touch(key)
                  /\ LAST_FILLED_FIELD' = IF o.ok THEN key ELSE LAST_FILLED_FIELD
                  /\ UNCHANGED sav
          ELSE /\ page' = [page EXCEPT ![key] = v]
               /\ env' = e1
               /\ sav' = SavCall(key, expected, verify_mode, EnsureMaxAttempts)
               /\ vr' = [vr EXCEPT !.stage = "auto_ret"]
               /\ UNCHANGED <<LAST_FILLED_FIELD, hist>>
    /\ UNCHANGED <<data, pc, result, GST_TOGGLED_ONCE, CONSIGNEE_TRIED_BOTH,
                   LAST_ALERT_ACCEPTED>>
    /\ UNCHANGED call

\* lines 970-995: _ensure_autocomplete returned (first call, or the call made
\* after the GST toggle)
VerifyAutoReturn ==
    /\ pc = "Verify"
    /\ vr.stage \in {"auto_ret", "toggle_ret"}
    /\ sav.phase = "ret"
    /\ LET key == VrKey
           expected == VrExpected
       IN
       IF sav.ret
       THEN /\ LAST_FILLED_FIELD' = key
            /\ vr' = VrAdvance(vr, key, TRUE)
            /\ sav' = IdleSav
            /\ UNCHANGED <<data, page, env, GST_TOGGLED_ONCE, LAST_ALERT_ACCEPTED, hist>>
       ELSE IF vr.stage = "toggle_ret"
       THEN \* lines 989-993: an alert accepted now counts as a selection
            \E alert \in {FALSE} \cup (IF CanFault("Popup") THEN {TRUE} ELSE {}) :
               /\ LAST_ALERT_ACCEPTED' = (LAST_ALERT_ACCEPTED \/ alert)
               /\ LAST_FILLED_FIELD' = IF alert THEN key ELSE LAST_FILLED_FIELD
               /\ env' = EnvAfter("Popup", ~alert)
               /\ vr' = VrAdvance(vr, key, alert)
               /\ sav' = IdleSav
               /\ UNCHANGED <<data, page, GST_TOGGLED_ONCE, hist>>
       ELSE \E v \in Reads(key, page[key]) :
            LET e1 == EnvAfter(key, v = page[key]) IN
            IF ToggleGuard(key, strip(v), CONSIGNEE_TRIED_BOTH)
            THEN \E t \in ToggleOutcomes(e1, Get(data, "GSTType")) :
                    /\ hist' = [hist EXCEPT !.toggles = @ + 1,
                                            !.new = t.new,
                                            !.touched = @ \cup {"GSTType"}]
                    /\ UNCHANGED <<LAST_FILLED_FIELD, LAST_ALERT_ACCEPTED>>
                    /\ IF t.new = None
                       THEN /\ page' = [page EXCEPT ![key] = v, !["GSTType"] = t.val]
                            /\ env' = t.env
                            /\ vr' = VrAdvance(vr, key, FALSE)
                            /\ sav' = IdleSav
                            /\ UNCHANGED <<data, GST_TOGGLED_ONCE>>
                       ELSE \E o \in EnsureSelectOutcomes(t.env, t.val, t.new) :
                            /\ GST_TOGGLED_ONCE' = TRUE
                            /\ data' = DocAfterToggle(data, t.new)
                            /\ page' = [page EXCEPT ![key] = v, !["GSTType"] = o.val]
                            /\ env' = o.env
                            /\ IF o.ok
                               THEN /\ sav' = SavCall(key, expected, VrVerify(key),
                                                      EnsureMaxAttempts)
                                    /\ vr' = [vr EXCEPT !.stage = "toggle_ret"]
                               ELSE /\ sav' = IdleSav
                                    /\ vr' = VrAdvance(vr, key, FALSE)
            ELSE /\ page' = [page EXCEPT ![key] = v]
                 /\ env' = e1
                 /\ vr' = VrAdvance(vr, key, FALSE)
                 /\ sav' = IdleSav
                 /\ UNCHANGED <<data, GST_TOGGLED_ONCE, LAST_FILLED_FIELD,
                                LAST_ALERT_ACCEPTED, hist>>
    /\ UNCHANGED <<pc, result, CONSIGNEE_TRIED_BOTH>>
    /\ UNCHANGED call

\* lines 1016-1022: the end of a pass
VerifyPassEnd ==
    /\ pc = "Verify"
    /\ vr.stage = "check"
    /\ vr.i > Len(vr.fields)
    /\ IF vr.failures = {} \/ vr.p >= max_passes
       THEN /\ vr' = IdleVr
            /\ pc' = "AddItem"
            /\ hist' = [hist EXCEPT !.unrepaired = vr.failures]
       ELSE /\ vr' = [vr EXCEPT !.p = @ + 1, !.i = 1, !.failures = {}]
            /\ UNCHANGED <<pc, hist>>
    /\ UNCHANGED <<data, page, env, result, flags, sav>>
    /\ UNCHANGED call

(***************************************************************************)
(* fill_consignment_form: the Insert Item modal, the rate, the result      *)
(***************************************************************************)
\* lines 1257-1264: "Add Item" is clicked; a failure is only printed
ClickAddItem ==
    /\ pc = "AddItem"
    /\ \E clicked \in MayFail("ItemModal") :
          env' = EnvAfter("ItemModal", clicked)
    /\ pc' = "ItemModal"
    /\ UNCHANGED <<data, page, result, flags, sav, vr, hist>>
    /\ UNCHANGED call

\* the steps of lines 1272-1317 in order, by the key each one reads
ItemSteps == <<"Invoice No", "ContentName", "ActualWeight", "E-WayBill ValidUpto",
               "Invoice Date", "E-Way Bill Date", "E-Way Bill NO">>

\* lines 1277-1299: is _set_content_name_anyhow called at all
ContentAttempted(d) == Get(d, "ContentName") # <<>> \/ Get(d, "GoodsType") # <<>>

\* does the step at index i act on the page
ItemStepActs(d, i) ==
    IF ItemSteps[i] = "ContentName" THEN ContentAttempted(d)
    ELSE Get(d, ItemSteps[i]) # <<>>

\* lines 1275, 1283, 1294, 1304: LAST_FILLED_FIELD after the steps before index
\* stop ran (stop = Len + 1: all of them), ok_cn the content name's result
ItemLastFilled(d, last, stop, ok_cn) ==
    LET Sets(i) == /\ i < stop
                   /\ ItemStepActs(d, i)
                   /\ ItemSteps[i] \in {"Invoice No", "ContentName", "ActualWeight"}
                   /\ (ItemSteps[i] = "ContentName" => ok_cn)
        S == {i \in 1..Len(ItemSteps) : Sets(i)}
    IN IF S = {} THEN last
       ELSE ItemSteps[CHOOSE i \in S : \A j \in S : j <= i]

\* lines 1266-1321: popups closed, the modal's boxes typed; the first safe_type
\* that raises ends the block (the exception is printed)
FillItemModal ==
    /\ pc = "ItemModal"
    /\ \E flag \in PopupLoopFlags :
       LET e0 == EnvAfterIn(env, "Popup", flag = LAST_ALERT_ACCEPTED)
           n  == Len(ItemSteps)
       IN
       /\ LAST_ALERT_ACCEPTED' = flag
       /\ \E stop \in 1..(n + 1), ok_cn \in BOOLEAN :
             /\ stop <= n => /\ CanFaultIn(e0, "ItemModal")
                             /\ ItemStepActs(data, stop)
                             /\ ItemSteps[stop] # "ContentName"
             /\ ~ok_cn => /\ CanFaultIn(e0, "ItemModal")
                          /\ stop > 2
                          /\ ContentAttempted(data)
             /\ env' = EnvAfterIn(e0, "ItemModal", stop = n + 1 /\ ok_cn)
             /\ LAST_FILLED_FIELD' = ItemLastFilled(data, LAST_FILLED_FIELD, stop, ok_cn)
             /\ hist' = [hist EXCEPT !.touched = @ \cup
                            {ItemSteps[i] : i \in {j \in 1..n : j <= stop /\ ItemStepActs(data, j)}}]
    /\ pc' = "AddInvoice"
    /\ UNCHANGED <<data, page, result, GST_TOGGLED_ONCE, CONSIGNEE_TRIED_BOTH, sav, vr>>
    /\ UNCHANGED call

\* lines 1323-1337: "Add Invoice" is clicked, the modal is closed
ClickAddInvoice ==
    /\ pc = "AddInvoice"
    /\ \E clicked \in MayFail("ItemModal") :
          /\ env' = EnvAfter("ItemModal", clicked)
          /\ LAST_FILLED_FIELD' = IF clicked THEN "AddInvoice" ELSE LAST_FILLED_FIELD
    /\ pc' = "Rate"
    /\ UNCHANGED <<data, page, result, GST_TOGGLED_ONCE, CONSIGNEE_TRIED_BOTH,
                   LAST_ALERT_ACCEPTED, sav, vr, hist>>
    /\ UNCHANGED call

\* lines 1339-1351
FillRate ==
    /\ pc = "Rate"
    /\ LET rate_val == Get(data, "Get Rate") IN
       IF rate_val = <<>>
       THEN UNCHANGED <<env, LAST_FILLED_FIELD, hist>>
       ELSE \/ /\ CanFault("Get Rate")
               /\ env' = Faulted("Get Rate")
               /\ hist' = Touch("Get Rate")
               /\ UNCHANGED LAST_FILLED_FIELD
            \/ \E v \in {rate_val} \cup (IF CanFault("Get Rate") THEN {<<>>, PageOther} ELSE {}) :
                  /\ env' = EnvAfter("Get Rate", v = rate_val)
                  /\ hist' = Touch("Get Rate")
                  /\ LAST_FILLED_FIELD' = IF wait_until_value(v, rate_val)
                                          THEN "Get Rate" ELSE LAST_FILLED_FIELD
    /\ pc' = "Required"
    /\ UNCHANGED <<data, page, result, GST_TOGGLED_ONCE, CONSIGNEE_TRIED_BOTH,
                   LAST_ALERT_ACCEPTED, sav, vr>>
    /\ UNCHANGED call

\* line 1358
missing_fields(d) == {f \in required_fields : Get(d, f) = <<>>}

\* a result that looks at LAST_FILLED_FIELD alone
RequiredResultLastOnly(last, missing) == last # NoField

\* lines 1360-1365: the value returned
RequiredResult(last, missing) == ~(last = NoField \/ missing # {})

\* the Final Submit block run unconditionally at the end of the pass
SubmitUngated(all_ok) == TRUE

\* lines 1371-1402: the Final Submit block is a string literal, nothing runs it
SubmitReached(all_ok) == FALSE

\* lines 1352-1365: the last popup loop and the required-field check
RequiredCheck ==
    /\ pc = "Required"
    /\ \E flag \in PopupLoopFlags :
          /\ LAST_ALERT_ACCEPTED' = flag
          /\ env' = EnvAfter("Popup", flag = LAST_ALERT_ACCEPTED)
    /\ LET r == RequiredResult(LAST_FILLED_FIELD, missing_fields(data)) IN
       /\ result' = r
       /\ hist' = [hist EXCEPT !.submits = @ + (IF SubmitReached(r) THEN 1 ELSE 0)]
    /\ pc' = "done"
    /\ UNCHANGED <<data, page, GST_TOGGLED_ONCE, CONSIGNEE_TRIED_BOTH,
                   LAST_FILLED_FIELD, sav, vr>>
    /\ UNCHANGED call

(***************************************************************************)
(* build_validation_status: the missing-value entry                        *)
(***************************************************************************)
\* FIELD_LOCATORS, lines 1411-1425
FIELD_LOCATORS == {"Vehicle", "ActualWeight", "EWayBillNo", "Consignee", "GSTType",
                   "Delivery Address", "Source", "Destination", "ConsignmentNo",
                   "Date", "Get Rate", "E-Way Bill NO", "Invoice No"}

\* line 1427
AUTOCOMPLETE_FIELDS == {"Source", "Destination", "Consignor", "Consignee", "Vehicle"}

\* lines 1464-1495: is an entry with Reason "Missing value in JSON" appended for key
MissingValueInJson(key, json_val, erp_val) ==
    /\ key \in FIELD_LOCATORS
    /\ \/ \* lines 1470-1486: an autocomplete box shows a value, no JSON value
          key \in AUTOCOMPLETE_FIELDS /\ erp_val # <<>> /\ json_val = <<>>
       \/ \* lines 1488-1495
          json_val = <<>>

(***************************************************************************)
(* The fill pass                                                           *)
(***************************************************************************)
Next ==
    \/ FillConsignmentNo
    \/ DuplicateAffordance
    \/ FillDate
    \/ \E f \in {"Source", "Destination", "Vehicle", "Consignor"} : FillAutocomplete(f)
    \/ \E f \in {"Source", "Destination", "Vehicle", "Consignor"} : AutocompleteReturn(f)
    \/ SavBegin
    \/ SavPick
    \/ SavFallback
    \/ SavFinal
    \/ FillEWayBillNo
    \/ FillGSTType
    \/ FillConsignee
    \/ ConsigneeReturn
    \/ ConsigneeToggledReturn
    \/ FillDeliveryAddress
    \/ VerifyStart
    \/ VerifyField
    \/ VerifyAutoReturn
    \/ VerifyPassEnd
    \/ ClickAddItem
    \/ FillItemModal
    \/ ClickAddInvoice
    \/ FillRate
    \/ RequiredCheck

Spec == Init /\ [][Next]_vars
(***************************************************************************)
(* Properties of the fill pass                                             *)
(***************************************************************************)
\* some field's audit failed: a required value is missing, a setter was not
\* confirmed, or a field was still wrong when verify_and_repair_fields ended
AuditFailed ==
    \/ missing_fields(data) # {}
    \/ hist.notConfirmed # {}
    \/ hist.unrepaired # {}

\* C1: the submit action is never invoked in a pass in which some field's audit
\* failed (value missing, not set, or not matching), nor in a pass that did not
\* return True.
C1_NoSubmitAfterFailedAudit ==
    (AuditFailed \/ (pc = "done" /\ result # TRUE)) => hist.submits = 0

\* a pass that ended with a failed audit and without a submit
C1_Witness ==
    /\ pc = "done"
    /\ hist.notConfirmed # {}
    /\ hist.submits = 0

\* every form field has a value and the form shows it
AllFieldsMatch ==
    \A f \in Fields :
        /\ Get(data, f) # <<>>
        /\ IF f = "Date" THEN _date_equal(strip(page[f]), Get(data, f))
           ELSE _equal(page[f], Get(data, f))

\* C2 (as stated): when every field's expected value equals the value observed
\* in the form, the submit action is invoked exactly once during the pass.
C2_SubmitOnceWhenAllPass ==
    (pc = "done" /\ result = TRUE /\ AllFieldsMatch /\ ~AuditFailed) => hist.submits = 1

\* C3 (as stated): whenever the setter or the verification of a non-empty field
\* failed, the result of the pass is not all-pass.
C3_FailedFieldNotAllPass ==
    (pc = "done" /\ hist.notConfirmed \cap hist.unrepaired # {}) => result # TRUE

\* C4: across one call of fill_consignment_form, its verify-and-repair pass
\* included, the GST-type toggle fires at most once.
C4_ToggleAtMostOnce == hist.toggles <= 1

\* the toggle fired, Consignee failed again, and the pass ran to its end
C4_Witness ==
    /\ pc = "done"
    /\ hist.toggles = 1
    /\ "Consignee" \in hist.notConfirmed

\* a call of set_autocomplete_verify for a non-blank target has returned False
SavFailed == sav.phase = "ret" /\ ~sav.ret /\ sav.value # <<>>

\* the max_attempts the caller at this point of the pass hands over
CallerMaxAttempts ==
    IF pc = "Verify" THEN EnsureMaxAttempts
    ELSE IF pc \in {"Consignee", "ConsigneeToggled"} THEN ConsigneeMaxAttempts
    ELSE FillMaxAttempts

C6_DuplicateStopsThePass ==
    hist.dupShown => hist.touched \subseteq {"ConsignmentNo"}

\* C7: a required field whose expected value is blank is never interacted with,
\* the pass returns False, and build_validation_status gives it the reason
\* "Missing value in JSON".
C7_BlankRequiredField ==
    \A f \in required_fields :
        Get(data, f) = <<>> =>
            /\ f \notin hist.touched
            /\ (pc = "done" => result = FALSE)
            /\ MissingValueInJson(f, Get(data, f), strip(page[f]))

\* a pass that filled other fields, ran to its end and failed on the blank one
C7_Witness ==
    /\ pc = "done"
    /\ result = FALSE
    /\ LAST_FILLED_FIELD = "Get Rate"
    /\ \E f \in required_fields : Get(data, f) = <<>> /\ f \notin hist.touched
    /\ hist.touched # {}

\* C8 (as stated): if a field accepted earlier is found cleared or mismatching
\* by verify_and_repair_fields and cannot be repaired, the result of the pass is
\* failing.
C8_PersistenceFailureFails ==
    (pc = "done" /\ hist.accepted \cap hist.unrepaired # {}) => result = FALSE

\* the call has returned True
SavSucceeded == sav.phase = "ret" /\ sav.ret

\* the value read at the return matches the target under the verify mode
SeenMatches ==
    /\ sav.seen # None
    /\ sav.seen # <<>>
    /\ ValueAccepted(sav.verify, sav.value, sav.seen)

\* an option was clicked and an alert accepted (lines 384 and 401) in the
\* attempt the call is in
AlertInThisAttempt == sav.pickAlert

SavFields == {"Source", "Consignor"}

\* what the box may hold before the first call
SavStartValues == {<<>>, OptExact, PageFuzzy, PageOther}

SavInit ==
    /\ data = [k \in Keys |-> DocValue(k, Registered)]
    /\ \E f \in SavFields, v \in SavStartValues :
          /\ page = [g \in Fields |-> IF g = f THEN v ELSE <<>>]
          /\ hist = [touched |-> {}, field |-> f, start |-> v, first |-> None,
                     firstRet |-> FALSE, firstTypings |-> 0]
    /\ env = [bad |-> {}, budget |-> MaxFaults]
    /\ pc = "call1"
    /\ result = "none"
    /\ GST_TOGGLED_ONCE = FALSE
    /\ CONSIGNEE_TRIED_BOTH = FALSE
    /\ LAST_FILLED_FIELD = NoField
    /\ LAST_ALERT_ACCEPTED = FALSE
    /\ sav = IdleSav
    /\ vr = IdleVr
    /\ call = NoCall

\* the first call, as at lines 1086 and 1124
SavFirstCall ==
    /\ pc = "call1"
    /\ sav' = SavCall(hist.field, Get(data, hist.field), VerifyMode(hist.field),
                      FillMaxAttempts)
    /\ pc' = "in1"
    /\ UNCHANGED <<data, page, env, result, flags, vr, hist>>
    /\ UNCHANGED call

\* the first call has returned; the same call is made again, on a page that
\* behaves from here on (whatever it did during the first call)
SavSecondCall ==
    /\ pc = "in1"
    /\ sav.phase = "ret"
    /\ hist' = [hist EXCEPT !.touched = {}, !.first = page[hist.field],
                            !.firstRet = sav.ret, !.firstTypings = sav.typings]
    /\ env' = [bad |-> {}, budget |-> 0]
    /\ sav' = SavCall(hist.field, Get(data, hist.field), VerifyMode(hist.field),
                      FillMaxAttempts)
    /\ pc' = "in2"
    /\ UNCHANGED <<data, page, result, flags, vr>>
    /\ UNCHANGED call

\* the second call has returned
SavSecondReturn ==
    /\ pc = "in2"
    /\ sav.phase = "ret"
    /\ pc' = "end"
    /\ UNCHANGED <<data, page, env, result, flags, sav, vr, hist>>
    /\ UNCHANGED call

SavNext ==
    \/ SavFirstCall
    \/ SavBegin
    \/ SavPick
    \/ SavFallback
    \/ SavFinal
    \/ SavSecondCall
    \/ SavSecondReturn

SpecSav == SavInit /\ [][SavNext]_vars

\* the box held a non-empty value matching the target when the second call began
FirstLeftMatch ==
    /\ strip(hist.first) # <<>>
    /\ ValueAccepted(VerifyMode(hist.field), Get(data, hist.field), strip(hist.first))

\* C11: a call on a box that already holds a matching value returns True without
\* clicking or typing and leaves the value as it was, so two successive calls
\* leave what one call left; and every typing clears the box first, so after a
\* typing the box holds the target alone, whatever it held before.
C11_SetterIdempotent ==
    /\ sav.phase = "pick" => page[sav.field] = sav.value
    /\ (pc = "end" /\ env.bad = {} /\ FirstLeftMatch) =>
          /\ sav.ret
          /\ sav.typings = 0
          /\ hist.touched = {}
          /\ page[hist.field] = hist.first

\* the first call typed over another text and picked; the second changed nothing
C11_Witness ==
    /\ pc = "end"
    /\ env.bad = {}
    /\ hist.start = PageOther
    /\ hist.firstTypings = 1
    /\ FirstLeftMatch
    /\ sav.ret
    /\ page[hist.field] = hist.first
(***************************************************************************)
(* wait_for_idle and wait_for_idle_fast                                    *)
(* Time is counted in fiftieths of a second (0.02 s).                      *)
(***************************************************************************)
\* stable_until = None
NoTime == -1

\* the longest the script calls of one poll take
MaxLatency == 1

\* the calls made: wait_for_idle(total_timeout=6) at line 1085 (quiet_time 0.7,
\* poll 0.12), wait_for_idle_fast() with its defaults 4.0, 0.30, 0.08, and
\* wait_for_idle_fast(total_timeout=2.0) at line 1208
IdleCalls ==
    { [fn |-> "wait_for_idle",      total_timeout |-> 300, quiet_time |-> 35, poll |-> 6],
      [fn |-> "wait_for_idle_fast", total_timeout |-> 200, quiet_time |-> 15, poll |-> 4],
      [fn |-> "wait_for_idle_fast", total_timeout |-> 100, quiet_time |-> 15, poll |-> 4] }

\* what the page is at one poll, and which script calls raise:
\* visible/hidden count the elements matching the spinner selectors
PollEnvs ==
    { pe \in [ready : BOOLEAN, active : 0..1, visible : 0..1, hidden : 0..1,
              fails : {{}, {"ready"}, {"jq"}, {"spinners"}, {"spinners", "fallback"},
                       {"ready", "jq", "spinners", "fallback"}}] :
        /\ pe.hidden = 1 => pe.fails = {"spinners"}
        /\ Cardinality(pe.fails) = 4 => (~pe.ready /\ pe.active = 1 /\ pe.visible = 1) }

\* lines 108-111: document.readyState == "complete", True when the call raises
ReadyReading(pe) == IF "ready" \in pe.fails THEN TRUE ELSE pe.ready

\* _jq_active, lines 84-88
_jq_active(pe) == IF "jq" \in pe.fails THEN 0 ELSE pe.active

\* _spinners_present, lines 90-102: the visible ones; if that call raises, all
\* that match; if that raises too, 0
_spinners_present(pe) ==
    IF "spinners" \notin pe.fails THEN pe.visible
    ELSE IF "fallback" \notin pe.fails THEN pe.visible + pe.hidden
    ELSE 0

\* line 113: "if ready and active == 0 and spinners == 0"
IdleReading(pe) == ReadyReading(pe) /\ _jq_active(pe) = 0 /\ _spinners_present(pe) = 0

\* a loop that gives up at half the timeout
LoopRunsHalf(now, end) == now + now < end

\* line 107: "while time.time() < end"
LoopRuns(now, end) == now < end

\* a busy poll that leaves the quiet window running
StableKept(stable_until) == stable_until

\* lines 118-119: a poll that is not idle resets the quiet window
StableAfterBusy(stable_until) == NoTime

\* lines 105-106: the call
IdleInit ==
    /\ \E c \in IdleCalls :
          call = [fn |-> c.fn, total_timeout |-> c.total_timeout,
                  quiet_time |-> c.quiet_time, poll |-> c.poll,
                  now |-> 0, end |-> 0 + c.total_timeout, stable_until |-> NoTime,
                  phase |-> "loop", ret |-> FALSE,
                  run |-> NoTime, allFailed |-> TRUE]
    /\ data = [k \in Keys |-> None]
    /\ page = [f \in Fields |-> <<>>]
    /\ env = [bad |-> {}, budget |-> 0]
    /\ pc = "idle"
    /\ result = "none"
    /\ GST_TOGGLED_ONCE = FALSE
    /\ CONSIGNEE_TRIED_BOTH = FALSE
    /\ LAST_FILLED_FIELD = NoField
    /\ LAST_ALERT_ACCEPTED = FALSE
    /\ sav = IdleSav
    /\ vr = IdleVr
    /\ hist = InitHist

\* lines 107-121: one turn of the loop.  call.run is the time of the first
\* reading of the idle readings in a row that reach up to now (NoTime if the
\* last reading was not idle).
IdlePoll ==
    /\ call.phase = "loop"
    /\ LoopRuns(call.now, call.end)
    /\ \E pe \in PollEnvs, lat \in 0..MaxLatency :
          LET t   == call.now + lat
              run == IF call.run = NoTime THEN t ELSE call.run
              su  == IF call.stable_until = NoTime THEN t + call.quiet_time
                     ELSE call.stable_until
              c1  == [call EXCEPT !.allFailed = @ /\ Cardinality(pe.fails) = 4]
          IN IF IdleReading(pe)
             THEN IF t >= su
                  THEN call' = [c1 EXCEPT !.now = t, !.stable_until = su, !.run = run,
                                          !.phase = "ret", !.ret = TRUE]
                  ELSE call' = [c1 EXCEPT !.now = t + call.poll, !.stable_until = su,
                                          !.run = run]
             ELSE call' = [c1 EXCEPT !.now = t + call.poll, !.run = NoTime,
                                     !.stable_until = StableAfterBusy(call.stable_until)]
    /\ UNCHANGED fillVars

\* line 122: the loop ended without a quiet window
IdleTimeout ==
    /\ call.phase = "loop"
    /\ ~LoopRuns(call.now, call.end)
    /\ call' = [call EXCEPT !.phase = "ret", !.ret = FALSE]
    /\ UNCHANGED fillVars

IdleNext ==
    \/ IdlePoll
    \/ IdleTimeout

SpecIdle == IdleInit /\ [][IdleNext]_vars

\* time.sleep(poll) always ends, so the loop keeps turning
SpecIdleFair == SpecIdle /\ WF_vars(IdleNext)

\* C12: wait_for_idle and wait_for_idle_fast return True only if every reading
\* (ready, no pending jQuery request, no spinner; a script call that raises
\* reads as idle) was idle at every poll throughout a window of at least
\* quiet_time that ends at the return; a poll that is not idle resets the window.
C12_TrueOnlyAfterQuietWindow ==
    (call.phase = "ret" /\ call.ret) =>
        /\ call.run # NoTime
        /\ call.now - call.run >= call.quiet_time

\* True after a window that began again after a busy poll
C12_Witness ==
    /\ call.phase = "ret"
    /\ call.ret
    /\ call.run > 0
    /\ call.now - call.run >= call.quiet_time
    /\ ~call.allFailed

\* C13: wait_for_idle always returns and never raises: True when a quiet window
\* completed at a poll begun before the timeout, False only once the timeout has
\* elapsed with no quiet window completed at any poll, also when every script
\* call of every poll raises.
C13_AlwaysReturns ==
    /\ [](call.phase = "ret" =>
            IF call.ret THEN call.now - call.run >= call.quiet_time
            ELSE /\ call.now >= call.end
                 /\ call.run # NoTime =>
                        (call.now - call.poll) - call.run < call.quiet_time)
    /\ <>(call.phase = "ret")

\* every script call raised at every poll, and the call returned True
C13_Witness ==
    /\ call.phase = "ret"
    /\ call.ret
    /\ call.allFailed
    /\ call.fn = "wait_for_idle"
C15_ExceptionPropagates ==
    hist.raised # NoField => pc # "done"

\* the fields whose steps come after the step of field f (lines 1061-1250)
StepsAfter(f) ==
    CASE f = "ConsignmentNo" -> Fields \ {"ConsignmentNo"}
      [] f = "Date"          -> Fields \ {"ConsignmentNo", "Date"}
      [] f = "EWayBillNo"    -> {"Consignor", "GSTType", "Consignee", "Delivery Address"}

\* C16: an element-wait timeout in the ConsignmentNo, Date or EWayBillNo step
\* does not end the pass: some field whose step comes after it is still
\* attempted before the pass is over.
C16_TimeoutNotFatal ==
    (pc = "done" /\ hist.raised \in {"ConsignmentNo", "Date", "EWayBillNo"}) =>
        hist.touched \cap StepsAfter(hist.raised) # {}
(***************************************************************************)
(* The comparison helpers called on their own                              *)
(***************************************************************************)
\* no fill pass is running: only the helper called changes state
NoPass(label) ==
    /\ data = [k \in Keys |-> None]
    /\ page = [f \in Fields |-> <<>>]
    /\ env = [bad |-> {}, budget |-> 0]
    /\ pc = label
    /\ result = "none"
    /\ GST_TOGGLED_ONCE = FALSE
    /\ CONSIGNEE_TRIED_BOTH = FALSE
    /\ LAST_FILLED_FIELD = NoField
    /\ LAST_ALERT_ACCEPTED = FALSE
    /\ sav = IdleSav
    /\ vr = IdleVr
    /\ hist = InitHist

\* expected values: missing, empty, blank, and two that are not
CompareExpected == {None, <<>>, Blank, <<" ", " ">>, DocText, DocDate}

\* values read from the page
CompareObserved == {<<>>, Blank, OptExact, PageFuzzy, PageOther, DocDate, PageDateLong}

CompareInit ==
    /\ \E e \in CompareExpected, o \in CompareObserved, k \in Fields :
          call = [fn |-> "none", key |-> k, expected |-> e, observed |-> o,
                  phase |-> "args", ret |-> FALSE]
    /\ NoPass("compare")

Returned(fn, ret) == [call EXCEPT !.fn = fn, !.phase = "ret", !.ret = ret]

\* fuzzy_ok(json_val, erp_val), lines 66-79
CallFuzzyOk ==
    /\ call.phase = "args"
    /\ call' = Returned("fuzzy_ok", fuzzy_ok(call.expected, call.observed))
    /\ UNCHANGED fillVars

\* _equal(current, expected), lines 847-848
CallEqual ==
    /\ call.phase = "args"
    /\ call' = Returned("_equal", _equal(call.observed, call.expected))
    /\ UNCHANGED fillVars

\* _contains(current, expected), lines 850-851
CallContains ==
    /\ call.phase = "args"
    /\ call' = Returned("_contains", _contains(call.observed, call.expected))
    /\ UNCHANGED fillVars

\* _date_equal(current, expected), lines 600-606
CallDateEqual ==
    /\ call.phase = "args"
    /\ call' = Returned("_date_equal", _date_equal(call.observed, call.expected))
    /\ UNCHANGED fillVars

\* add_field(key, ...), lines 902-916, for a document whose value of key is the
\* expected value: is the field kept for the audit
CallAddField ==
    /\ call.phase = "args"
    /\ LET d == [k \in Keys |-> IF k = call.key THEN call.expected ELSE DocValue(k, Registered)]
       IN call' = Returned("add_field", add_field(call.key, d, FALSE))
    /\ UNCHANGED fillVars

CompareNext ==
    \/ CallFuzzyOk
    \/ CallEqual
    \/ CallContains
    \/ CallDateEqual
    \/ CallAddField

SpecCompare == CompareInit /\ [][CompareNext]_vars

\* the expected value is missing, empty or only whitespace
EmptyExpected(v) == strip(OrEmpty(v)) = <<>>

\* C17: for an empty or whitespace-only expected value no comparison helper
\* (fuzzy_ok, _equal, _contains, _date_equal) reports a match against any
\* observed value, and the audit keeps the field (so that it is reported as a
\* failure) instead of skipping it.
C17_EmptyExpectedNeverMatches ==
    (call.phase = "ret" /\ EmptyExpected(call.expected)) =>
        IF call.fn = "add_field" THEN call.ret ELSE ~call.ret
(***************************************************************************)
(* _date_equal called on its own                                           *)
(***************************************************************************)
\* dates as documents and pages write them: with "/", "-" or ".", with a 2-digit
\* year, with a time after them, without separators, with fewer than three
\* groups, with a year or a day of other lengths, without any digit, empty, None
DateInputs ==
    { None, <<>>,
      <<"0", "5", "/", "0", "3", "/", "2", "0", "2", "4">>,
      <<"5", "-", "3", "-", "2", "4">>,
      <<"0", "5", "/", "0", "4", "/", "2", "0", "2", "4">>,
      <<"0", "5", ".", "0", "3", ".", "2", "0", "2", "4">>,
      <<"5", "/", "3", "/", "2", "4", " ", "1", "0", ":", "3", "0">>,
      <<"0", "5", "0", "3", "2", "0", "2", "4">>,
      <<"5", "/", "3">>,
      <<"5", "/", "3", "/", "4">>,
      <<"5", "/", "3", "/", "0", "0", "0", "4">>,
      <<"0", "0", "5", "/", "3", "/", "2", "4">>,
      <<"a", "b">> }

DateInit ==
    /\ \E a \in DateInputs, b \in DateInputs :
          call = [fn |-> "_date_equal", a |-> a, b |-> b, phase |-> "args", ret |-> FALSE]
    /\ NoPass("date")

\* lines 600-606
DateEqualCall ==
    /\ call.phase = "args"
    /\ call' = [call EXCEPT !.phase = "ret", !.ret = _date_equal(call.a, call.b)]
    /\ UNCHANGED fillVars

DateNext == DateEqualCall

SpecDate == DateInit /\ [][DateNext]_vars

\* C18: _date_equal(a, b): when both inputs have at least three digit groups it
\* is true iff the first three groups agree as (day, month, year), day and month
\* zero-padded to 2 digits, a 2-digit year read as 20yy and the year taken as a
\* 4-digit year; otherwise it is true iff the digit-only strings are equal.  The
\* relation is symmetric.
C18_DateEqual ==
    call.phase = "ret" =>
        LET ga == DigitGroupsFrom(OrEmpty(call.a), 1, <<>>)
            gb == DigitGroupsFrom(OrEmpty(call.b), 1, <<>>)
            Pad(g, w) == [i \in 1..(IF Len(g) >= w THEN Len(g) ELSE w) |->
                             IF Len(g) >= w THEN g[i]
                             ELSE IF i <= w - Len(g) THEN "0" ELSE g[i - (w - Len(g))]]
            Year(g) == IF Len(g) = 2 THEN <<"2", "0", g[1], g[2]>> ELSE Pad(g, 4)
        IN /\ IF Len(ga) >= 3 /\ Len(gb) >= 3
              THEN call.ret <=> /\ Pad(ga[1], 2) = Pad(gb[1], 2)
                                /\ Pad(ga[2], 2) = Pad(gb[2], 2)
                                /\ Year(ga[3]) = Year(gb[3])
              ELSE call.ret <=> (DigitsOnly(OrEmpty(call.a)) = DigitsOnly(OrEmpty(call.b)))
           /\ call.ret <=> _date_equal(call.b, call.a)
           /\ (call.a = <<"0", "5", "/", "0", "3", "/", "2", "0", "2", "4">> /\ call.b = <<"5", "-", "3", "-", "2", "4">>) => call.ret
           /\ (call.a = <<"0", "5", "/", "0", "3", "/", "2", "0", "2", "4">> /\ call.b = <<"0", "5", "/", "0", "4", "/", "2", "0", "2", "4">>) => ~call.ret

\* 05/03/2024 against 5-3-24: equal
C18_Witness ==
    /\ call.phase = "ret"
    /\ call.fn = "_date_equal"
    /\ call.a = <<"0", "5", "/", "0", "3", "/", "2", "0", "2", "4">>
    /\ call.b = <<"5", "-", "3", "-", "2", "4">>
    /\ call.ret
(***************************************************************************)
(* build_validation_status: the verdict on one field                       *)
(***************************************************************************)
\* numeric_tolerance = 0.1 (line 1407); numbers are counted in hundredths
numeric_tolerance == 10

DigitChars == <<"0","1","2","3","4","5","6","7","8","9">>

DigitValue(c) == (CHOOSE i \in 1..10 : DigitChars[i] = c) - 1

RECURSIVE ToInt(_)
ToInt(ds) ==
    IF ds = <<>> THEN 0
    ELSE 10 * ToInt(SubSeq(ds, 1, Len(ds) - 1)) + DigitValue(ds[Len(ds)])

\* v.replace(",", "")
RemoveCommas(s) == SelectSeq(s, LAMBDA c : c # ",")

\* the texts float() takes, of those written with digits, sign and point:
\* an optional sign, digits with at most one "." among them, at least one digit
\* (exponents, "inf", "nan" and "_" are not among the texts drawn)
IsDecimal(s) ==
    LET body == IF s # <<>> /\ s[1] \in {"+", "-"} THEN Tail(s) ELSE s
    IN /\ \A i \in 1..Len(body) : body[i] \in Digits \cup {"."}
       /\ Cardinality({i \in 1..Len(body) : body[i] = "."}) <= 1
       /\ \E i \in 1..Len(body) : body[i] \in Digits

\* _is_number, lines 1448-1453
_is_number(v) == IsDecimal(strip(RemoveCommas(v)))

\* float(v.replace(",", "")) in hundredths, for texts of at most two decimals
float(v) ==
    LET t    == strip(RemoveCommas(v))
        body == IF t[1] \in {"+", "-"} THEN Tail(t) ELSE t
        dot  == IF \E i \in 1..Len(body) : body[i] = "."
                THEN CHOOSE i \in 1..Len(body) : body[i] = "."
                ELSE Len(body) + 1
        ip   == SubSeq(body, 1, dot - 1)
        fp   == SubSeq(SubSeq(body, dot + 1, Len(body)) \o <<"0", "0">>, 1, 2)
        mag  == 100 * ToInt(ip) + ToInt(fp)
    IN IF t[1] = "-" THEN 0 - mag ELSE mag

\* line 1509, "abs(jv - ev) <= numeric_tolerance" on doubles: the outcomes.  Away
\* from the tolerance the doubles decide as the decimals do; at a difference of
\* exactly the tolerance the rounding of the doubles decides
\* (abs(1.1 - 1.0) <= 0.1 is False, abs(100.1 - 100.0) <= 0.1 is True)
WithinTolerance(jv, ev) ==
    LET d == IF jv >= ev THEN jv - ev ELSE ev - jv
    IN IF d < numeric_tolerance THEN {TRUE}
       ELSE IF d > numeric_tolerance THEN {FALSE}
       ELSE BOOLEAN

\* _as_date_str, lines 1455-1462
_as_date_str(v) ==
    LET parts == DigitGroupsFrom(v, 1, <<>>)
    IN IF Len(parts) >= 3
       THEN LET y == IF Len(parts[3]) = 2 THEN <<"2", "0">> \o parts[3] ELSE parts[3]
            IN zfill(parts[1], 2) \o <<"-">> \o zfill(parts[2], 2) \o <<"-">> \o zfill(y, 4)
       ELSE None

\* lines 1532-1533: re.sub(r"[^A-Za-z0-9]", "", v).lower()
Clean(v) == casefold(SelectSeq(v, LAMBDA c : c \in Digits \cup UpperSet \cup LowerSet))

RECURSIVE WordsFrom(_, _, _)
\* v.split(), scanning from position i with the open word cur
WordsFrom(s, i, cur) ==
    IF i > Len(s) THEN (IF cur = <<>> THEN {} ELSE {cur})
    ELSE IF ~IsSpace(s[i]) THEN WordsFrom(s, i + 1, Append(cur, s[i]))
    ELSE (IF cur = <<>> THEN {} ELSE {cur}) \cup WordsFrom(s, i + 1, <<>>)

\* lines 1538-1539: set(v.lower().split())
Tokens(v) == WordsFrom(casefold(v), 1, <<>>)

\* lines 1540-1545: the token overlap accepts
TokenOverlapOk(json_val, erp_val) ==
    LET j_tokens == Tokens(json_val)
        e_tokens == Tokens(erp_val)
        n        == Cardinality(j_tokens \cap e_tokens)
    IN /\ Cardinality(j_tokens) > 0
       /\ \/ 5 * n >= 4 * Cardinality(j_tokens)
          \/ (2 * n >= Cardinality(j_tokens) /\ erp_val # <<>>)

\* line 1476: r >= 0.5
AtLeastHalf(r) == 2 * r[1] >= r[2]

\* lines 1464-1556, one turn of the loop over FIELD_LOCATORS: the verdicts it may
\* reach for key, "ok" when nothing is appended to failed, else the Reason
ValidateField(key, json_val, erp_val) ==
    IF key \in AUTOCOMPLETE_FIELDS /\ erp_val # <<>> /\ json_val = <<>>
    THEN {"Missing value in JSON"}
    ELSE IF /\ key \in AUTOCOMPLETE_FIELDS
            /\ erp_val # <<>>
            /\ \/ fuzzy_ok(json_val, erp_val)
               \/ AtLeastHalf(similarity_ratio(json_val, erp_val))
    THEN {"ok"}
    ELSE IF json_val = <<>> THEN {"Missing value in JSON"}
    ELSE IF erp_val = <<>> THEN {"Missing value in ERP"}
    ELSE IF _is_number(json_val) /\ _is_number(erp_val)
    THEN { IF w THEN "ok" ELSE "Numeric mismatch" :
              w \in WithinTolerance(float(json_val), float(erp_val)) }
    ELSE IF _as_date_str(json_val) # None /\ _as_date_str(erp_val) # None
    THEN { IF _as_date_str(json_val) = _as_date_str(erp_val) THEN "ok" ELSE "Date mismatch" }
    ELSE IF Clean(json_val) = Clean(erp_val) THEN {"ok"}
    ELSE IF TokenOverlapOk(json_val, erp_val) THEN {"ok"}
    ELSE IF AtLeastThreshold(similarity_ratio(json_val, erp_val)) THEN {"ok"}
    ELSE {"Mismatch"}

\* keys of FIELD_LOCATORS: an autocomplete box, a number box, a date box
ValidateKeys == {"Vehicle", "Get Rate", "Date"}

\* values of the document and of the page: numbers (with two decimals, with a
\* thousands separator, at and off the tolerance), words, dates, nothing
ValidateTexts ==
    { <<>>, Blank,
      <<"1", "0", "0", ".", "0", "0">>,
      <<"1", "0", "0", ".", "0", "5">>,
      <<"1", "0", "0">>,
      <<"1", "5", "0">>,
      <<"1", ",", "0", "0", "0">>,
      <<"1", ".", "0">>,
      <<"1", ".", "1">>,
      <<"-", "5">>,
      <<"A", "B", "C", "D">>,
      <<"A", "B", " ", "C", "D">>,
      <<"5", "/", "3", "/", "2", "4">>,
      <<"0", "5", ".", "0", "3", ".", "2", "0", "2", "4">> }

ValidateInit ==
    /\ \E k \in ValidateKeys, j \in ValidateTexts, e \in ValidateTexts :
          call = [fn |-> "build_validation_status", key |-> k, data |-> j, erp |-> e,
                  phase |-> "args", ret |-> "none"]
    /\ NoPass("validate")

\* lines 1465-1466 and the turn of the loop for call.key
ValidateFieldCall ==
    /\ call.phase = "args"
    /\ \E r \in ValidateField(call.key, strip(call.data), strip(call.erp)) :
          call' = [call EXCEPT !.phase = "ret", !.ret = r]
    /\ UNCHANGED fillVars

ValidateNext == ValidateFieldCall

SpecValidate == ValidateInit /\ [][ValidateNext]_vars

\* C19: in build_validation_status, when the expected and the observed value
\* both parse as numbers after removing the thousands separators, the field
\* passes iff their absolute difference is at most numeric_tolerance (0.1), and
\* fails with "Numeric mismatch" otherwise: 100.00 against 100.05 passes, 100
\* against 150 fails.
C19_NumericTolerance ==
    (call.phase = "ret" /\ _is_number(strip(call.data)) /\ _is_number(strip(call.erp))) =>
        LET jv == float(call.data)
            ev == float(call.erp)
            d  == IF jv >= ev THEN jv - ev ELSE ev - jv
        IN /\ (call.ret = "ok") <=> (d <= numeric_tolerance)
           /\ call.ret # "ok" => call.ret = "Numeric mismatch"
(***************************************************************************)
(* Content name computation                                                *)
(***************************************************************************)
RECURSIVE AlnumRunsFrom(_, _, _)
\* re.split(r"[^A-Za-z0-9]+", s) without the empty pieces, from position i
AlnumRunsFrom(s, i, cur) ==
    IF i > Len(s) THEN (IF cur = <<>> THEN <<>> ELSE <<cur>>)
    ELSE IF s[i] \in Digits \cup UpperSet \cup LowerSet
         THEN AlnumRunsFrom(s, i + 1, Append(cur, s[i]))
    ELSE (IF cur = <<>> THEN <<>> ELSE <<cur>>) \o AlnumRunsFrom(s, i + 1, <<>>)

\* _tokenize_upper, lines 612-613
_tokenize_upper(s) == AlnumRunsFrom(upper(OrEmpty(s)), 1, <<>>)

\* re.search(r"[A-Z]+", s).group(0), None when s has no capital letter
FirstCapitals(s) ==
    IF \A i \in 1..Len(s) : s[i] \notin UpperSet THEN None
    ELSE LET lo == CHOOSE i \in 1..Len(s) :
                      /\ s[i] \in UpperSet
                      /\ \A j \in 1..(i - 1) : s[j] \notin UpperSet
             hi == CHOOSE i \in lo..Len(s) :
                      /\ \A j \in lo..i : s[j] \in UpperSet
                      /\ (i = Len(s) \/ s[i + 1] \notin UpperSet)
         IN SubSeq(s, lo, hi)

\* _normalize_base_from_json, lines 620-631
_normalize_base_from_json(content_name) ==
    IF ~Truthy(content_name) THEN None
    ELSE LET s == upper(strip(content_name))
         IN IF IsIn(<<"O", "P", "C">>, s) THEN <<"O", "P", "C">>
            ELSE IF IsIn(<<"P", "P", "C">>, s) THEN <<"P", "P", "C">>
            ELSE FirstCapitals(s)

\* _normalize_goods_type_from_json, lines 633-646
_normalize_goods_type_from_json(goods_type) ==
    IF ~Truthy(goods_type) THEN None
    ELSE LET gt   == upper(strip(goods_type))
             list == _tokenize_upper(gt)
             toks == {list[i] : i \in 1..Len(list)}
         IN IF gt \in {<<"B", "A", "G">>, <<"B", "U", "L", "K">>, <<"P", "A", "P", "E", "R">>} THEN gt
            ELSE IF <<"P", "A", "P", "E", "R">> \in toks THEN <<"P", "A", "P", "E", "R">>
            ELSE IF <<"B", "U", "L", "K">> \in toks
                    \/ gt \in {<<"B", "U", "L", "K", "S">>, <<"B", "U", "L", "K", " ", "L", "O", "A", "D">>, <<"B", "U", "L", "K", "L", "O", "A", "D">>}
                 THEN <<"B", "U", "L", "K">>
            ELSE IF <<"B", "A", "G">> \in toks \/ gt \in {<<"B", "A", "G", "S">>, <<"B", "A", "G", "(", "S", ")">>}
                 THEN <<"B", "A", "G">>
            ELSE gt

\* a label that is never coerced
KeepLabel(base, label) == label

\* lines 653-654: OPC with PAPER is written as OPC BAG
CoerceLabel(base, label) ==
    IF base = <<"O", "P", "C">> /\ label = <<"P", "A", "P", "E", "R">> THEN <<"B", "A", "G">> ELSE label

\* compute_final_content_string_from_json, lines 648-655
compute_final_content_string_from_json(content_name_raw, goods_type_raw) ==
    LET base  == _normalize_base_from_json(content_name_raw)
        label == _normalize_goods_type_from_json(goods_type_raw)
    IN IF ~Truthy(base) \/ ~Truthy(label) THEN None
       ELSE base \o <<" ">> \o CoerceLabel(base, label)

\* content names of documents: missing, empty, blank, with OPC or PPC in them,
\* with another word, without a letter
ContentNames ==
    { None, <<>>, Blank,
      <<"O", "P", "C", "5", "3">>,
      <<"P", "P", "C", "-", "4", "2">>,
      <<"o", "p", "c", " ", "4", "3">>,
      <<"p", "p", "c">>,
      <<"1", "2", "-", "3">>,
      <<"S", "l", "a", "g", " ", "c", "e", "m", "e", "n", "t">>,
      <<"4", "3", " ", "g", "r", "a", "d", "e">> }

\* goods types of documents
GoodsTypes ==
    { None, <<>>, Blank,
      <<"p", "a", "p", "e", "r", " ", "b", "a", "g">>,
      <<"B", "U", "L", "K", " ", "L", "O", "A", "D">>,
      <<"B", "A", "G">>,
      <<"b", "a", "g", "s">>,
      <<"B", "A", "G", "(", "S", ")">>,
      <<"P", "a", "p", "e", "r">>,
      <<"b", "u", "l", "k", "l", "o", "a", "d">>,
      <<"B", "U", "L", "K">>,
      <<"l", "o", "o", "s", "e">>,
      <<"j", "u", "m", "b", "o", " ", "b", "a", "g">> }

ContentInit ==
    /\ \E c \in ContentNames, g \in GoodsTypes :
          call = [fn |-> "compute_final_content_string_from_json",
                  content_name_raw |-> c, goods_type_raw |-> g,
                  phase |-> "args", ret |-> None]
    /\ NoPass("content")

ContentCall ==
    /\ call.phase = "args"
    /\ call' = [call EXCEPT !.phase = "ret",
                            !.ret = compute_final_content_string_from_json(
                                        call.content_name_raw, call.goods_type_raw)]
    /\ UNCHANGED fillVars

ContentNext == ContentCall

SpecContent == ContentInit /\ [][ContentNext]_vars

\* C20: compute_final_content_string_from_json returns for any two inputs (None
\* and empty ones too); it returns None iff the
\* normalized base or the normalized goods label is missing, and otherwise
\* "<base> <label>" with OPC + PAPER written as "OPC BAG", never "OPC PAPER":
\* ('OPC53', 'paper bag') gives 'OPC BAG', ('PPC-42', 'BULK LOAD') gives
\* 'PPC BULK', (None, 'BAG') gives None.
C20_ContentString ==
    /\ call.phase = "args" => ENABLED ContentCall
    /\ call.phase = "ret" =>
        LET c     == call.content_name_raw
            g     == call.goods_type_raw
            base  == _normalize_base_from_json(c)
            label == _normalize_goods_type_from_json(g)
            opc_paper == base = <<"O", "P", "C">> /\ label = <<"P", "A", "P", "E", "R">>
        IN /\ (call.ret = None) <=> (base \in {None, <<>>} \/ label \in {None, <<>>})
           /\ call.ret # None =>
                 call.ret = base \o <<" ">> \o (IF opc_paper THEN <<"B", "A", "G">> ELSE label)
           /\ call.ret # <<"O", "P", "C", " ", "P", "A", "P", "E", "R">>
           /\ (c = <<"O", "P", "C", "5", "3">> /\ g = <<"p", "a", "p", "e", "r", " ", "b", "a", "g">>) => call.ret = <<"O", "P", "C", " ", "B", "A", "G">>
           /\ (c = <<"P", "P", "C", "-", "4", "2">> /\ g = <<"B", "U", "L", "K", " ", "L", "O", "A", "D">>) => call.ret = <<"P", "P", "C", " ", "B", "U", "L", "K">>
           /\ (c = None /\ g = <<"B", "A", "G">>) => call.ret = None

\* ('OPC53', 'paper bag') gave 'OPC BAG'
C20_Witness ==
    /\ call.phase = "ret"
    /\ call.fn = "compute_final_content_string_from_json"
    /\ call.content_name_raw = <<"O", "P", "C", "5", "3">>
    /\ call.goods_type_raw = <<"p", "a", "p", "e", "r", " ", "b", "a", "g">>
    /\ call.ret = <<"O", "P", "C", " ", "B", "A", "G">>
(***************************************************************************)
(* _get_json_value called on its own                                       *)
(***************************************************************************)
\* the most keys of a document
MaxKeys == 2

\* line 1277: the accepted spellings of the content name, in order
ContentNameKeys ==
    << <<"C", "o", "n", "t", "e", "n", "t", "N", "a", "m", "e">>,
       <<"C", "o", "n", "t", "e", "n", "t", " ", "N", "a", "m", "e">>,
       <<"c", "o", "n", "t", "e", "n", "t", "n", "a", "m", "e">>,
       <<"c", "o", "n", "t", "e", "n", "t", "_", "n", "a", "m", "e">>,
       <<"c", "o", "n", "t", "e", "n", "t">>,
       <<"i", "t", "e", "m", "n", "a", "m", "e">> >>

\* keys a document may carry: an accepted spelling, two other spellings of it,
\* a spelling of another candidate, a key that is none of them
JsonKeys ==
    { <<"C", "o", "n", "t", "e", "n", "t", "N", "a", "m", "e">>,
      <<"C", "O", "N", "T", "E", "N", "T", " ", "N", "A", "M", "E">>,
      <<"c", "o", "n", "t", "e", "n", "t", "-", "n", "a", "m", "e">>,
      <<"I", "t", "e", "m", " ", "N", "a", "m", "e">>,
      <<"R", "e", "m", "a", "r", "k", "s">> }

\* values a document may carry
JsonValues == {None, <<>>, Blank, <<"O", "P", "C">>}

\* documents: the keys in the order the dict holds them, each with its value
JsonDocs ==
    { d \in UNION { [1..n -> [key : JsonKeys, value : JsonValues]] : n \in 0..MaxKeys } :
        \A i, j \in 1..Len(d) : i # j => d[i].key # d[j].key }

\* "v is not None and str(v).strip()"
NonBlank(v) == v # None /\ strip(v) # <<>>

\* k in data
HasKey(d, k) == \E i \in 1..Len(d) : d[i].key = k

\* data.get(k)
ValueOf(d, k) == d[CHOOSE i \in 1..Len(d) : d[i].key = k].value

\* norm_key, lines 1036-1037
norm_key(k) == Clean(OrEmpty(k))

\* normalized_map[nk], line 1038: the dict comprehension keeps, of the keys with
\* one normalized spelling, the last
normalized_map(d, nk) ==
    d[CHOOSE i \in 1..Len(d) :
          /\ norm_key(d[i].key) = nk
          /\ \A j \in (i + 1)..Len(d) : norm_key(d[j].key) # nk].key

\* lines 1030-1034: the candidates found as they are written, with a value
ExactHits(d, candidate_keys) ==
    { n \in 1..Len(candidate_keys) :
        HasKey(d, candidate_keys[n]) /\ NonBlank(ValueOf(d, candidate_keys[n])) }

\* lines 1039-1045: the candidates found by their normalized spelling, with a value
NormHits(d, candidate_keys) ==
    { n \in 1..Len(candidate_keys) :
        /\ \E i \in 1..Len(d) : norm_key(d[i].key) = norm_key(candidate_keys[n])
        /\ NonBlank(ValueOf(d, normalized_map(d, norm_key(candidate_keys[n])))) }

Least(S) == CHOOSE n \in S : \A m \in S : n <= m

\* _get_json_value, lines 1027-1045
_get_json_value(d, candidate_keys) ==
    IF d = <<>> THEN None
    ELSE IF ExactHits(d, candidate_keys) # {}
    THEN strip(ValueOf(d, candidate_keys[Least(ExactHits(d, candidate_keys))]))
    ELSE IF NormHits(d, candidate_keys) # {}
    THEN LET k == candidate_keys[Least(NormHits(d, candidate_keys))]
         IN strip(ValueOf(d, normalized_map(d, norm_key(k))))
    ELSE None

JsonInit ==
    /\ \E d \in JsonDocs :
          call = [fn |-> "_get_json_value", data |-> d, phase |-> "args", ret |-> None]
    /\ NoPass("json")

\* line 1277
JsonCall ==
    /\ call.phase = "args"
    /\ call' = [call EXCEPT !.phase = "ret",
                            !.ret = _get_json_value(call.data, ContentNameKeys)]
    /\ UNCHANGED fillVars

JsonNext == JsonCall

SpecJson == JsonInit /\ [][JsonNext]_vars

\* C21: _get_json_value returns a non-blank value whenever some key of the
\* document, stripped of non-alphanumerics and lower-cased, equals a normalized
\* accepted spelling and the value of that key is not blank, also when another
\* key with a blank value normalizes to the same spelling; it returns None only
\* when there is no such key.
C21_NormalizedKeyFound ==
    call.phase = "ret" =>
        LET accepted == {norm_key(ContentNameKeys[n]) : n \in 1..Len(ContentNameKeys)}
            found == \E i \in 1..Len(call.data) :
                        /\ norm_key(call.data[i].key) \in accepted
                        /\ NonBlank(call.data[i].value)
        IN /\ found => (call.ret # None /\ call.ret # <<>>)
           /\ call.ret = None => ~found
(***************************************************************************)
(* _close_any_popup called on its own                                      *)
(***************************************************************************)
\* lines 298-304: btn_selectors, by position
BtnSelectors == <<"btn-ok", "button OK", "button Ok", "swal2-confirm", "modal button OK">>

\* what the page shows when the call is made: a native alert or not, and the
\* selectors that match a clickable button
PopupPages == [alert : BOOLEAN, buttons : SUBSET (1..Len(BtnSelectors))]

\* a call that goes on looking after it closed a popup
KeepLooking(i) == IF i < Len(BtnSelectors) THEN "buttons" ELSE "ret"

\* lines 296-297, 316: "return True" right after the popup was handled
AfterClosing(i) == "ret"

PopupInit ==
    /\ \E p \in PopupPages :
          call = [fn |-> "_close_any_popup", alert |-> p.alert, buttons |-> p.buttons,
                  i |-> 0, probed |-> <<>>, closed |-> {}, phase |-> "alert", ret |-> FALSE]
    /\ NoPass("popup")

\* _accept_alert_if_any, lines 269-293, as called at line 296.  The wait may
\* time out or raise (no alert is taken: False); an alert found is accepted, or
\* dismissed if accept raises, or left if both raise, and True is returned.
PopupAlert ==
    /\ call.phase = "alert"
    /\ \E how \in {"accept", "dismiss", "neither", "raises"} :
          IF call.alert /\ how # "raises"
          THEN /\ call' = [call EXCEPT !.probed = Append(@, 0),
                                       !.closed = IF how = "neither" THEN @ ELSE @ \cup {0},
                                       !.alert = (how = "neither"),
                                       !.ret = TRUE,
                                       !.phase = AfterClosing(0)]
               /\ LAST_ALERT_ACCEPTED' = TRUE
          ELSE /\ how \in {"accept", "raises"}
               /\ call' = [call EXCEPT !.probed = Append(@, 0), !.phase = "buttons", !.i = 1]
               /\ UNCHANGED LAST_ALERT_ACCEPTED
    /\ UNCHANGED <<data, page, env, pc, result, GST_TOGGLED_ONCE, CONSIGNEE_TRIED_BOTH,
                   LAST_FILLED_FIELD, sav, vr, hist>>

\* lines 305-321: one turn of the loop over btn_selectors.  The button is
\* clicked, or clicked by script if the click raises; if the wait times out or
\* anything else raises, the loop goes on.
PopupButton ==
    /\ call.phase = "buttons"
    /\ call.i <= Len(BtnSelectors)
    /\ \E how \in {"click", "js", "raises"} :
          IF call.i \in call.buttons /\ how # "raises"
          THEN call' = [call EXCEPT !.probed = Append(@, call.i),
                                    !.closed = @ \cup {call.i},
                                    !.buttons = @ \ {call.i},
                                    !.ret = TRUE,
                                    !.i = @ + 1,
                                    !.phase = AfterClosing(call.i)]
          ELSE /\ how \in {"click", "raises"}
               /\ call' = [call EXCEPT !.probed = Append(@, call.i), !.i = @ + 1]
    /\ UNCHANGED fillVars

\* line 322
PopupNone ==
    /\ call.phase = "buttons"
    /\ call.i > Len(BtnSelectors)
    /\ call' = [call EXCEPT !.phase = "ret"]
    /\ UNCHANGED fillVars

PopupNext ==
    \/ PopupAlert
    \/ PopupButton
    \/ PopupNone

SpecPopup == PopupInit /\ [][PopupNext]_vars

\* C22: _close_any_popup never raises: a call under way always has a next step
\* and ends with True or False.  It looks for a native alert first and then for
\* the buttons of the selector list in order, stops with True at the first one
\* it handles, closes at most one popup per call, and returns False when nothing
\* is there.
C22_PopupSafe ==
    /\ call.phase # "ret" => ENABLED PopupNext
    /\ \A n \in 1..Len(call.probed) : call.probed[n] = n - 1
    /\ Cardinality(call.closed) <= 1
    /\ (call.phase # "ret" /\ call.probed # <<>>) => (~call.ret /\ call.closed = {})
    /\ call.phase = "ret" =>
          /\ call.ret \in BOOLEAN
          /\ call.ret => call.closed \subseteq {call.probed[Len(call.probed)]}
          /\ call.ret => (call.closed # {} \/ call.alert)
          /\ ~call.ret => (call.closed = {} /\ Len(call.probed) = 1 + Len(BtnSelectors))
          /\ (call.probed = <<0>>) => call.ret

\* no alert, two buttons on the page: the first in the list was closed, the
\* other was not looked for
C22_Witness ==
    /\ call.phase = "ret"
    /\ call.ret
    /\ call.closed = {2}
    /\ call.buttons = {4}
    /\ call.probed = <<0, 1, 2>>
(***************************************************************************)
(* _find_in_any_frame called on its own                                    *)
(***************************************************************************)
\* the most frames of the page
MaxFrames == 2

\* the most candidate locators of a call
MaxCandidates == 2

\* the index None of "return el, None", and the default content as a context
NoFrame == -1

\* no element
NoElement == [where |-> NoFrame, loc |-> 0]

\* the frames of the page in document order (the index idx of the code is the
\* position less one): displayed or not, switch_to.frame works or raises, and
\* the candidates that match an element in it
FramePages ==
    UNION { [1..n -> [visible : BOOLEAN, enters : BOOLEAN,
                      has : SUBSET (1..MaxCandidates)]] : n \in 0..MaxFrames }

\* the first candidate, in order, that matches in a document
FirstMatch(has) == CHOOSE n \in has : \A m \in has : n <= m

\* a frame left without going back to the default content
ContextLeft(idx) == idx

\* line 702: _switch_default after a frame without a match
ContextAfterMiss(idx) == NoFrame

FrameInit ==
    /\ \E fs \in FramePages, main \in SUBSET (1..MaxCandidates) :
       \E ctx \in {NoFrame} \cup {i - 1 : i \in 1..Len(fs)} :
          call = [fn |-> "_find_in_any_frame", main |-> main, frames |-> fs,
                  ctx |-> ctx, idx |-> 0, searched |-> <<>>,
                  phase |-> "main", el |-> NoElement, ret_idx |-> NoFrame]
    /\ NoPass("frame")

\* lines 677-683: the default content, then every candidate in it.  (A wait
\* that raises anything but TimeoutException leaves the function by that
\* exception: the call does not return, and no step of it is taken here.)
FrameMain ==
    /\ call.phase = "main"
    /\ IF call.main # {}
       THEN call' = [call EXCEPT !.ctx = NoFrame, !.searched = Append(@, NoFrame),
                                 !.el = [where |-> NoFrame, loc |-> FirstMatch(call.main)],
                                 !.ret_idx = NoFrame, !.phase = "ret"]
       ELSE call' = [call EXCEPT !.ctx = NoFrame, !.searched = Append(@, NoFrame),
                                 !.phase = "frames"]
    /\ UNCHANGED fillVars

\* lines 685-702: one turn of the loop over the frames.  is_displayed may raise
\* (the frame is passed over), switch_to.frame may raise (default content, the
\* frame is passed over).
FrameVisit ==
    /\ call.phase = "frames"
    /\ call.idx < Len(call.frames)
    /\ LET fr == call.frames[call.idx + 1] IN
       \E displayed_raises \in BOOLEAN :
          IF ~fr.visible \/ displayed_raises
          THEN call' = [call EXCEPT !.idx = @ + 1]
          ELSE IF ~fr.enters
          THEN call' = [call EXCEPT !.idx = @ + 1, !.ctx = NoFrame]
          ELSE IF fr.has # {}
          THEN call' = [call EXCEPT !.ctx = call.idx, !.searched = Append(@, call.idx),
                                    !.el = [where |-> call.idx, loc |-> FirstMatch(fr.has)],
                                    !.ret_idx = call.idx, !.phase = "ret"]
          ELSE call' = [call EXCEPT !.ctx = ContextAfterMiss(call.idx),
                                    !.searched = Append(@, call.idx), !.idx = @ + 1]
    /\ UNCHANGED fillVars

\* line 703
FrameNotFound ==
    /\ call.phase = "frames"
    /\ call.idx >= Len(call.frames)
    /\ call' = [call EXCEPT !.phase = "ret", !.el = NoElement, !.ret_idx = NoFrame]
    /\ UNCHANGED fillVars

FrameNext ==
    \/ FrameMain
    \/ FrameVisit
    \/ FrameNotFound

SpecFrame == FrameInit /\ [][FrameNext]_vars

\* C23: _find_in_any_frame searches the main document first, with every
\* candidate, and only then the frames that are displayed, one level down.  An
\* element found in frame i is returned as (element, i) with the context left
\* in that frame; one found in the main document as (element, None) with the
\* context at the default content; when nothing is found (None, None) is
\* returned with the context at the default content.  A frame that is not
\* displayed is never entered.
C23_FrameSearch ==
    /\ call.searched # <<>> => call.searched[1] = NoFrame
    /\ \A n \in 2..Len(call.searched) :
          /\ call.searched[n] >= 0
          /\ call.frames[call.searched[n] + 1].visible
          /\ call.main = {}
          /\ n > 2 => call.searched[n - 1] < call.searched[n]
    /\ call.phase = "ret" =>
          IF call.el = NoElement
          THEN /\ call.ret_idx = NoFrame
               /\ call.ctx = NoFrame
               /\ call.main = {}
               /\ \A i \in 1..Len(call.frames) :
                     (i - 1) \in {call.searched[n] : n \in 1..Len(call.searched)}
                        => call.frames[i].has = {}
          ELSE /\ call.ret_idx = call.el.where
               /\ call.ctx = call.ret_idx
               /\ call.searched[Len(call.searched)] = call.ret_idx
               /\ IF call.ret_idx = NoFrame
                  THEN call.el.loc \in call.main /\ \A m \in call.main : call.el.loc <= m
                  ELSE /\ call.frames[call.ret_idx + 1].visible
                       /\ call.el.loc \in call.frames[call.ret_idx + 1].has

\* nothing in the main document nor in the first frame, which was entered and
\* left, a second frame not displayed: (None, None) at the default content
C23_Witness ==
    /\ call.phase = "ret"
    /\ call.el = NoElement
    /\ call.searched = <<NoFrame, 0>>
    /\ Len(call.frames) = 2
    /\ ~call.frames[2].visible
    /\ call.frames[2].has # {}
    /\ call.ctx = NoFrame
(***************************************************************************)
(* build_validation_status: the report                                     *)
(***************************************************************************)
\* the most fields of a report whose values are not a plain match
MaxOddFields == 2

\* FIELD_LOCATORS in the order of its keys, lines 1411-1425
FieldTable == <<"Vehicle", "ActualWeight", "EWayBillNo", "Consignee", "GSTType",
                "Delivery Address", "Source", "Destination", "ConsignmentNo",
                "Date", "Get Rate", "E-Way Bill NO", "Invoice No">>

\* values of the document and of the page for the fields that are not a plain match
ReportTexts == {<<>>, <<"1", "0", "0">>, <<"1", "5", "0">>, DocDate, OptExact, PageOther}

\* a report that passes whatever failed
IsPassedAlways(failed) == TRUE

\* line 1558: "isPassed": len(failed) == 0
IsPassed(failed) == failed = <<>>

ReportInit ==
    /\ \E S \in {T \in SUBSET FIELD_LOCATORS : Cardinality(T) <= MaxOddFields},
          jv \in ReportTexts, ev \in ReportTexts :
          call = [fn |-> "build_validation_status",
                  data |-> [k \in FIELD_LOCATORS |-> IF k \in S THEN jv ELSE DocText],
                  erp  |-> [k \in FIELD_LOCATORS |-> IF k \in S THEN ev ELSE OptExact],
                  i |-> 1, failed |-> <<>>, phase |-> "loop",
                  ret |-> [isPassed |-> FALSE, FailedFields |-> <<>>]]
    /\ NoPass("report")

\* lines 1464-1556: one turn of the loop; an entry of failed is written here
\* with its Field and its Reason (CurrentValue and ERPValue are the two values)
ReportField ==
    /\ call.phase = "loop"
    /\ call.i <= Len(FieldTable)
    /\ LET key == FieldTable[call.i] IN
       \E r \in ValidateField(key, strip(call.data[key]), strip(call.erp[key])) :
          call' = [call EXCEPT !.i = @ + 1,
                               !.failed = IF r = "ok" THEN @
                                          ELSE Append(@, [Field |-> key, Reason |-> r])]
    /\ UNCHANGED fillVars

\* line 1558
ReportReturn ==
    /\ call.phase = "loop"
    /\ call.i > Len(FieldTable)
    /\ call' = [call EXCEPT !.phase = "ret",
                            !.ret = [isPassed |-> IsPassed(call.failed),
                                     FailedFields |-> call.failed]]
    /\ UNCHANGED fillVars

ReportNext ==
    \/ ReportField
    \/ ReportReturn

SpecReport == ReportInit /\ [][ReportNext]_vars

\* C24: in the report of build_validation_status isPassed is true iff
\* FailedFields is empty; every field of the table gives at most one entry, the
\* entries stand in the order of the table, and every Reason is one of a fixed
\* set of reason strings, never the name of a comparison mode.
C24_ReportShape ==
    LET pos(f) == CHOOSE n \in 1..Len(FieldTable) : FieldTable[n] = f
        ok(es) ==
            /\ \A n \in 1..Len(es) :
                  /\ es[n].Field \in FIELD_LOCATORS
                  /\ es[n].Reason \in {"Missing value in JSON", "Missing value in ERP",
                                       "Numeric mismatch", "Date mismatch", "Mismatch"}
                  /\ es[n].Reason \notin {"equals", "exact", "contains", "numeric",
                                          "date", "fuzzy"}
            /\ \A n \in 2..Len(es) : pos(es[n - 1].Field) < pos(es[n].Field)
    IN /\ ok(call.failed)
       /\ call.phase = "loop" =>
             \A n \in 1..Len(call.failed) : pos(call.failed[n].Field) < call.i
       /\ call.phase = "ret" =>
             /\ call.ret.FailedFields = call.failed
             /\ call.ret.isPassed <=> (call.ret.FailedFields = <<>>)

\* a report of two entries: it does not pass
C24_Witness ==
    /\ call.phase = "ret"
    /\ call.fn = "build_validation_status"
    /\ Len(call.ret.FailedFields) = 2
    /\ call.ret.FailedFields[1].Reason = "Numeric mismatch"
    /\ ~call.ret.isPassed
(***************************************************************************)
(* Fill passes one after another in one process                            *)
(***************************************************************************)
\* flags that keep what the earlier pass left
FlagsKept(old) == old

\* lines 1052-1055: the flags as fill_consignment_form sets them on entry,
\* <<GST_TOGGLED_ONCE, CONSIGNEE_TRIED_BOTH, LAST_FILLED_FIELD, LAST_ALERT_ACCEPTED>>
FlagsAtEntry(old) == <<FALSE, FALSE, NoField, FALSE>>

\* main.py line 334: fill_consignment_form is called for the next row, on the
\* form of a new browser session, with the module flags as the pass before
\* left them.  hist.earlier: a pass before this one toggled the GST type.
NextPass ==
    /\ pc = "done"
    /\ data' \in Docs
    /\ page' = [f \in Fields |-> <<>>]
    /\ env' = [bad |-> {}, budget |-> MaxFaults - NumBlank(data')]
    /\ pc' = "ConsignmentNo"
    /\ result' = "none"
    /\ GST_TOGGLED_ONCE' = FlagsAtEntry(flags)[1]
    /\ CONSIGNEE_TRIED_BOTH' = FlagsAtEntry(flags)[2]
    /\ LAST_FILLED_FIELD' = FlagsAtEntry(flags)[3]
    /\ LAST_ALERT_ACCEPTED' = FlagsAtEntry(flags)[4]
    /\ sav' = IdleSav
    /\ vr' = IdleVr
    /\ hist' = [InitHist EXCEPT !.earlier = hist.earlier \/ GST_TOGGLED_ONCE]
    /\ UNCHANGED call

NextRepeat ==
    \/ Next
    \/ NextPass

SpecRepeat == Init /\ [][NextRepeat]_vars

\* C25: every call of fill_consignment_form starts with GST_TOGGLED_ONCE,
\* CONSIGNEE_TRIED_BOTH, LAST_FILLED_FIELD and LAST_ALERT_ACCEPTED reset: the
\* state in which a pass starts is a state in which the first pass of the
\* process may start, whatever the passes before it left, so that what the pass
\* does and returns does not depend on them.
C25_PassStartsFresh ==
    [][(pc = "done" /\ pc' # "done") =>
          /\ GST_TOGGLED_ONCE' = FALSE
          /\ CONSIGNEE_TRIED_BOTH' = FALSE
          /\ LAST_FILLED_FIELD' = NoField
          /\ LAST_ALERT_ACCEPTED' = FALSE
          /\ pc' = "ConsignmentNo"
          /\ result' = "none"
          /\ data' \in Docs
          /\ page' = [f \in Fields |-> <<>>]
          /\ env' = [bad |-> {}, budget |-> MaxFaults - NumBlank(data')]
          /\ sav' = IdleSav
          /\ vr' = IdleVr
          /\ [hist' EXCEPT !.earlier = FALSE] = InitHist]_vars

\* a pass after one that had toggled the GST type toggles it again
C25_Witness ==
    /\ hist.earlier
    /\ hist.toggles = 1
    /\ GST_TOGGLED_ONCE
    /\ pc = "done"
MaxRows == 2
MaxIterations == 2

DocIds == 1..MaxRows

\* values of erp_entry_status
NotStarted == <<"N", "o", "t", " ", "S", "t", "a", "r", "t", "e", "d">>
InProgress == <<"I", "n", " ", "P", "r", "o", "g", "r", "e", "s", "s">>
Fixed == <<"F", "i", "x", "e", "d">>
Failed == <<"F", "a", "i", "l", "e", "d">>
Completed == <<"C", "o", "m", "p", "l", "e", "t", "e", "d">>
CompletedAHR == <<"C", "o", "m", "p", "l", "e", "t", "e", "d", " ", "A", "H", "R">>
Duplicate == <<"D", "u", "p", "l", "i", "c", "a", "t", "e">>

\* claim_one_row, line 102: UPPER(erp_entry_status) IN ('NOT STARTED')
claimable_new_only(status) ==
    upper(status) \in {upper(NotStarted)}

\* claim_one_row, line 102:
\* UPPER(erp_entry_status) IN ('NOT STARTED','IN PROGRESS','FIXED')
claimable(status) ==
    upper(status) \in {<<"N", "O", "T", " ", "S", "T", "A", "R", "T", "E", "D">>, <<"I", "N", " ", "P", "R", "O", "G", "R", "E", "S", "S">>, <<"F", "I", "X", "E", "D">>}

\* the JSON documents of a row: the keys Branch and branch
BranchName == <<"A", "B">>
RowDocs == {[Branch |-> b, branch |-> l] : b \in {None, <<" ">>, BranchName},
                                           l \in {None, BranchName}}

\* a column that is NULL or holds '{}'
EmptyJson == [Branch |-> None, branch |-> None]

\* ValidationStatus.FailedFields as the code writes it
MissingBranchFields == <<[Field |-> "Branch", Reason |-> "Data not found in ERP"]>>
BranchSelectFields == <<[Field |-> "Branch", Reason |-> "Could not select branch in ERP"]>>
ReportFields == <<[Field |-> "Consignee", Reason |-> "Mismatch"]>>
NoStatus == <<[Field |-> "none", Reason |-> "none"]>>

\* the rows a worker may find: doc ids are in the order of uploaded_on, and
\* every row has data_extraction_status 'Completed'
RowStates == [erp_entry_status : {NotStarted, Fixed, Completed},
              extracted_json : RowDocs,
              corrected_json : {EmptyJson, [Branch |-> BranchName, branch |-> None]},
              FailedFields : {NoStatus}]

NoRow == [doc_id |-> 0, prev_erp_entry_status |-> None]

\* process_row_with_driver, lines 260-266: the document the pass works from
used_corrected(rows, row) ==
    /\ upper(strip(OrEmpty(row.prev_erp_entry_status))) = upper(Fixed)
    /\ rows[row.doc_id].corrected_json # EmptyJson

json_source(rows, row) ==
    IF used_corrected(rows, row)
    THEN rows[row.doc_id].corrected_json
    ELSE rows[row.doc_id].extracted_json

\* process_row_with_driver, lines 273-281 and 289-290: no usable Branch
BranchMissing(d) ==
    LET val == IF Truthy(d.Branch) THEN d.Branch ELSE d.branch
        branch == strip(IF Truthy(d.Branch) THEN d.Branch
                        ELSE IF Truthy(d.branch) THEN d.branch ELSE <<>>)
    IN \/ val = None
       \/ strip(val) = <<>>
       \/ branch = <<>>

\* what a fill pass may have been when fill_consignment_form returns: ret is
\* the bool it returns (lines 1362, 1365, 1369 of consignment_form.py), failed
\* says that some field was judged failing in the pass, duplicate that the
\* duplicate notice showed
FillPasses == [returned : {TRUE}, ret : BOOLEAN, failed : BOOLEAN, duplicate : BOOLEAN]

NoFill == [returned |-> FALSE, ret |-> FALSE, failed |-> FALSE, duplicate |-> FALSE]

WorkerInit ==
    /\ call \in [fn : {"main_db_process"},
                 rows : [DocIds -> RowStates],
                 max_iterations : {0, MaxIterations},
                 iterations : {0},
                 pos : {"loop"},
                 row : {NoRow},
                 sessions : {0},
                 did : {{}},
                 exc : {"none"},
                 fill : {NoFill},
                 last : {[doc_id |-> 0, exc |-> "none", did |-> {}, fill |-> NoFill]}]
    /\ NoPass("worker")

\* lines 438-439: the iteration limit is reached
WorkerLimit ==
    /\ call.fn = "main_db_process"
    /\ call.pos = "loop"
    /\ call.max_iterations # 0
    /\ call.iterations >= call.max_iterations
    /\ call' = [call EXCEPT !.pos = "end"]
    /\ UNCHANGED fillVars

\* lines 441-448 with claim_one_row, 96-123: the oldest claimable row is set
\* to 'In Progress' and returned with the status it had; no row ends the loop
ClaimRow ==
    /\ call.fn = "main_db_process"
    /\ call.pos = "loop"
    /\ ~(call.max_iterations # 0 /\ call.iterations >= call.max_iterations)
    /\ LET cte == {d \in DocIds : claimable(call.rows[d].erp_entry_status)} IN
       IF cte = {}
       THEN call' = [call EXCEPT !.pos = "end"]
       ELSE LET d == Least(cte) IN
            call' = [call EXCEPT
                        !.row = [doc_id |-> d,
                                 prev_erp_entry_status |-> call.rows[d].erp_entry_status],
                        !.rows[d].erp_entry_status = InProgress,
                        !.did = {},
                        !.exc = "none",
                        !.fill = NoFill,
                        !.pos = "build"]
    /\ UNCHANGED fillVars

\* line 450: build_driver opens a browser session, or raises and the loop is
\* left through the handler of lines 473-474
BuildDriver ==
    /\ call.fn = "main_db_process"
    /\ call.pos = "build"
    /\ \/ call' = [call EXCEPT !.sessions = @ + 1, !.pos = "login"]
       \/ call' = [call EXCEPT !.pos = "end", !.exc = "build_driver"]
    /\ UNCHANGED fillVars

\* line 452: login(driver) returns or raises
Login ==
    /\ call.fn = "main_db_process"
    /\ call.pos = "login"
    /\ \/ call' = [call EXCEPT !.did = @ \cup {"login"}, !.pos = "process"]
       \/ call' = [call EXCEPT !.did = @ \cup {"login"}, !.exc = "login",
                               !.pos = "except"]
    /\ UNCHANGED fillVars

\* lines 283-295 with _mark_missing_and_fail, 170-197: the document has no
\* Branch; the report and 'Failed' are written and (False, msg) is returned,
\* which lines 454-455 turn into an exception
ProcessMissing ==
    /\ call.fn = "main_db_process"
    /\ call.pos = "process"
    /\ LET d == call.row.doc_id
           doc == json_source(call.rows, call.row) IN
       /\ BranchMissing(doc)
       /\ call' = [call EXCEPT !.rows[d].extracted_json = doc,
                               !.rows[d].FailedFields = MissingBranchFields,
                               !.rows[d].erp_entry_status = Failed,
                               !.exc = "missing",
                               !.pos = "except"]
    /\ UNCHANGED fillVars

\* lines 298-323: no branch could be selected
ProcessBranchFailed ==
    /\ call.fn = "main_db_process"
    /\ call.pos = "process"
    /\ LET d == call.row.doc_id
           doc == json_source(call.rows, call.row) IN
       /\ ~BranchMissing(doc)
       /\ call' = [call EXCEPT !.rows[d].extracted_json = doc,
                               !.rows[d].FailedFields = BranchSelectFields,
                               !.rows[d].erp_entry_status = Failed,
                               !.did = @ \cup {"select_branch"},
                               !.exc = "branch",
                               !.pos = "except"]
    /\ UNCHANGED fillVars

\* lines 327-328 and 426-429: open_operations or open_consignment_page raises;
\* the handler returns (False, msg)
ProcessNavigateRaises ==
    /\ call.fn = "main_db_process"
    /\ call.pos = "process"
    /\ ~BranchMissing(json_source(call.rows, call.row))
    /\ call' = [call EXCEPT !.did = @ \cup {"select_branch", "navigate"},
                            !.exc = "navigate",
                            !.pos = "except"]
    /\ UNCHANGED fillVars

\* lines 334 and 426-429: fill_consignment_form raises (its calls before the
\* "try" of line 1060); the handler returns (False, msg)
ProcessFillRaises ==
    /\ call.fn = "main_db_process"
    /\ call.pos = "process"
    /\ ~BranchMissing(json_source(call.rows, call.row))
    /\ call' = [call EXCEPT !.did = @ \cup {"select_branch", "navigate", "fill"},
                            !.exc = "fill",
                            !.pos = "except"]
    /\ UNCHANGED fillVars

\* line 337: result.get("duplicate") needs a dict; fill_consignment_form
\* returns True or False
HasGetMethod(r) == r \notin BOOLEAN

\* lines 337-424: the status written for a result that can be read
StatusForResult(fill, corrected) ==
    IF fill.duplicate THEN Duplicate
    ELSE IF fill.failed THEN Failed
    ELSE IF fill.ret THEN (IF corrected THEN CompletedAHR ELSE Completed)
    ELSE InProgress

\* lines 334-337 and 426-429: fill_consignment_form returned; reading the
\* result raises AttributeError and the handler returns (False, msg), else
\* the report and the status are written and (True, msg) is returned
ProcessFillReturns ==
    /\ call.fn = "main_db_process"
    /\ call.pos = "process"
    /\ LET d == call.row.doc_id
           doc == json_source(call.rows, call.row) IN
       /\ ~BranchMissing(doc)
       /\ \E fill \in FillPasses :
             IF HasGetMethod(fill.ret)
             THEN call' = [call EXCEPT
                     !.rows[d].extracted_json = doc,
                     !.rows[d].FailedFields = IF fill.failed THEN ReportFields ELSE <<>>,
                     !.rows[d].erp_entry_status =
                         StatusForResult(fill, used_corrected(call.rows, call.row)),
                     !.did = @ \cup {"select_branch", "navigate", "fill"},
                     !.fill = fill,
                     !.pos = "finally"]
             ELSE call' = [call EXCEPT
                     !.did = @ \cup {"select_branch", "navigate", "fill"},
                     !.fill = fill,
                     !.exc = "result",
                     !.pos = "except"]
    /\ UNCHANGED fillVars

\* lines 456-462: the handler of the iteration writes 'In Progress'
WorkerExcept ==
    /\ call.fn = "main_db_process"
    /\ call.pos = "except"
    /\ call' = [call EXCEPT !.rows[call.row.doc_id].erp_entry_status = InProgress,
                            !.pos = "finally"]
    /\ UNCHANGED fillVars

\* sessions left when quit is not called
AfterNoQuit(sessions) == sessions

\* line 467: driver.quit()
AfterQuit(sessions) == sessions - 1

\* lines 463-471: the browser is closed and the iteration is counted (the
\* count is only read against a limit, so without a limit it is kept at
\* MaxIterations)
WorkerFinally ==
    /\ call.fn = "main_db_process"
    /\ call.pos = "finally"
    /\ call' = [call EXCEPT
                   !.sessions = AfterQuit(@),
                   !.iterations = IF @ < MaxIterations THEN @ + 1 ELSE @,
                   !.last = [doc_id |-> call.row.doc_id,
                             exc |-> call.exc,
                             did |-> call.did,
                             fill |-> call.fill],
                   !.row = NoRow,
                   !.pos = "loop"]
    /\ UNCHANGED fillVars

WorkerNext ==
    \/ WorkerLimit
    \/ ClaimRow
    \/ BuildDriver
    \/ Login
    \/ ProcessMissing
    \/ ProcessBranchFailed
    \/ ProcessNavigateRaises
    \/ ProcessFillRaises
    \/ ProcessFillReturns
    \/ WorkerExcept
    \/ WorkerFinally

SpecWorker == WorkerInit /\ [][WorkerNext]_vars
\* C27: within one worker the next row is claimed only after the current
\* row's processing has finished and its browser session has been quit: there
\* is never more than one session, none is open when a row is claimed or when
\* the loop has ended, and this holds after every outcome of a row.
C27_OneSessionAtATime ==
    call.fn = "main_db_process" =>
        /\ call.sessions <= 1
        /\ call.pos \in {"loop", "build", "end"} => call.sessions = 0
        /\ call.pos = "loop" => call.row = NoRow
        /\ call.pos \in {"login", "process", "except", "finally"} =>
              call.sessions = 1 /\ call.row # NoRow

\* a row is claimed after the iteration before it ended in an exception and
\* its session was quit
C27_Witness ==
    /\ call.fn = "main_db_process"
    /\ call.pos = "build"
    /\ call.last.exc = "login"
    /\ call.last.did = {"login"}
    /\ call.row # NoRow
    /\ call.sessions = 0

\* C28: when login, navigation or the fill raised while a claimed row was
\* processed, at the end of the iteration the browser session is gone and the
\* row's erp_entry_status is 'In Progress', which claim_one_row takes; a row
\* that is claimed starts from the beginning, with nothing done yet.
C28_ExceptionLeavesRowClaimable ==
    call.fn = "main_db_process" =>
        /\ (call.pos = "loop" /\ call.last.exc \in {"login", "navigate", "fill"}) =>
              /\ call.sessions = 0
              /\ call.rows[call.last.doc_id].erp_entry_status = InProgress
              /\ claimable(call.rows[call.last.doc_id].erp_entry_status)
        /\ call.pos \in {"build", "login"} => call.did = {}
        /\ call.pos = "process" => call.did = {"login"}

\* the document whose fill raised is picked up again by the next pass
C28_Witness ==
    /\ call.fn = "main_db_process"
    /\ call.pos = "process"
    /\ call.last.exc = "fill"
    /\ call.row.doc_id = call.last.doc_id

\* C29: when the claimed row's JSON has no non-blank Branch, no branch
\* selection, navigation or fill is attempted, and when the iteration has
\* finished the row's erp_entry_status is 'Failed' and FailedFields lists
\* Branch with the reason 'Data not found in ERP'.
C29_MissingBranchFails ==
    (call.fn = "main_db_process" /\ call.pos = "loop" /\ call.last.exc = "missing") =>
        /\ call.last.did \cap {"select_branch", "navigate", "fill"} = {}
        /\ call.rows[call.last.doc_id].FailedFields = MissingBranchFields
        /\ call.rows[call.last.doc_id].erp_entry_status = Failed
(***************************************************************************)
(* main.py: attempt_select_branch_with_fallback                            *)
(***************************************************************************)
ARAKONAM == <<"A", "R", "A", "K", "O", "N", "A", "M">>
ARAKKONAM == <<"A", "R", "A", "K", "K", "O", "N", "A", "M">>

\* branch names as the row's JSON may carry them, bare and with spaces around
BranchNames == {ARAKONAM, <<"a", "r", "a", "k", "o", "n", "a", "m">>, <<"A", "r", "a", "k", "o", "n", "a", "m">>, ARAKKONAM, <<"A", "B">>, <<"A", "R", "A", "K", "O", "N", "A", "M", "S">>}
BranchInputs ==
    {None, <<>>, <<" ">>, <<" ", " ">>}
    \cup BranchNames
    \cup {<<" ">> \o b : b \in BranchNames}
    \cup {b \o <<" ">> : b \in BranchNames}
    \cup {<<" ">> \o b \o <<" ">> : b \in BranchNames}

\* what a call of select_branch may do: return True, None or False, or raise
SelectOutcomes == {"True", "None", "False", "raise"}

\* an attempt that counts only a returned True
SucceededOnlyTrue(outcome) == outcome = "True"

\* lines 217-225, 233-239: an attempt fails when select_branch raises or
\* returns False; any other return value is a success
Succeeded(outcome) == outcome \notin {"False", "raise"}

BranchInit ==
    /\ call \in [fn : {"attempt_select_branch_with_fallback"},
                 branch : BranchInputs,
                 normalized : {<<>>},
                 tried : {<<>>},
                 outcomes : {<<>>},
                 phase : {"args"},
                 ret : {FALSE}]
    /\ NoPass("branch")

\* lines 209-211: a blank branch returns False
BranchEnter ==
    /\ call.fn = "attempt_select_branch_with_fallback"
    /\ call.phase = "args"
    /\ LET normalized == strip(OrEmpty(call.branch)) IN
       call' = [call EXCEPT !.normalized = normalized,
                            !.phase = IF normalized = <<>> THEN "ret" ELSE "first",
                            !.ret = FALSE]
    /\ UNCHANGED fillVars

\* lines 215-227: the first attempt, with the trimmed value
BranchFirst ==
    /\ call.fn = "attempt_select_branch_with_fallback"
    /\ call.phase = "first"
    /\ \E outcome \in SelectOutcomes :
          call' = [call EXCEPT !.tried = Append(@, call.normalized),
                               !.outcomes = Append(@, outcome),
                               !.phase = IF Succeeded(outcome) THEN "ret" ELSE "fallback",
                               !.ret = Succeeded(outcome)]
    /\ UNCHANGED fillVars

\* lines 229-247: ARAKONAM is tried again as ARAKKONAM
BranchFallback ==
    /\ call.fn = "attempt_select_branch_with_fallback"
    /\ call.phase = "fallback"
    /\ IF upper(call.normalized) = ARAKONAM
       THEN \E outcome \in SelectOutcomes :
               call' = [call EXCEPT !.tried = Append(@, ARAKKONAM),
                                    !.outcomes = Append(@, outcome),
                                    !.phase = "ret",
                                    !.ret = Succeeded(outcome)]
       ELSE call' = [call EXCEPT !.phase = "ret", !.ret = FALSE]
    /\ UNCHANGED fillVars

BranchNext ==
    \/ BranchEnter
    \/ BranchFirst
    \/ BranchFallback

SpecBranch == BranchInit /\ [][BranchNext]_vars

\* C30: attempt_select_branch_with_fallback never raises and calls
\* select_branch at most twice; the second call happens only after a first
\* attempt that raised or returned False for a trimmed branch that is ARAKONAM
\* in any letter case, and it passes ARAKKONAM; the function returns True
\* exactly when some attempt succeeded, and for a blank branch it returns False
\* without calling select_branch.
C30_BranchFallback ==
    call.fn = "attempt_select_branch_with_fallback" =>
        /\ call.phase # "ret" => ENABLED BranchNext
        /\ Len(call.tried) <= 2
        /\ Len(call.tried) = Len(call.outcomes)
        /\ Len(call.tried) >= 1 => call.tried[1] = strip(OrEmpty(call.branch))
        /\ Len(call.tried) = 2 =>
              /\ call.outcomes[1] \in {"False", "raise"}
              /\ casefold(strip(OrEmpty(call.branch))) = casefold(ARAKONAM)
              /\ call.tried[2] = ARAKKONAM
        /\ call.phase = "ret" =>
              /\ call.ret = (\E i \in 1..Len(call.outcomes) :
                                call.outcomes[i] \in {"True", "None"})
              /\ strip(OrEmpty(call.branch)) = <<>> =>
                    (call.ret = FALSE /\ call.tried = <<>>)

\* a padded lower-case arakonam fails first and succeeds as ARAKKONAM
C30_Witness ==
    /\ call.fn = "attempt_select_branch_with_fallback"
    /\ call.phase = "ret"
    /\ call.branch = <<" ">> \o <<"a", "r", "a", "k", "o", "n", "a", "m">> \o <<" ">>
    /\ call.tried = <<<<"a", "r", "a", "k", "o", "n", "a", "m">>, ARAKKONAM>>
    /\ call.outcomes = <<"raise", "None">>
    /\ call.ret = TRUE
(***************************************************************************)
(* verify_and_repair_fields called on a filled form                        *)
(***************************************************************************)
\* the form as a fill left it: every box shows the document's value, the
\* Consignee box that value or nothing
FilledPages(d) ==
    { [f \in Fields |-> IF f = "Consignee" THEN c ELSE Get(d, f)] :
         c \in {<<>>, Get(d, "Consignee")} }

\* lines 897-898: the function reads the module flags as they are
VerifyInit ==
    /\ data \in {d \in Docs : NumBlank(d) = 0}
    /\ page \in FilledPages(data)
    /\ env = [bad |-> {}, budget |-> MaxFaults]
    /\ pc = "Verify"
    /\ result = "none"
    /\ GST_TOGGLED_ONCE = FALSE
    /\ CONSIGNEE_TRIED_BOTH \in BOOLEAN
    /\ LAST_FILLED_FIELD = NoField
    /\ LAST_ALERT_ACCEPTED = FALSE
    /\ sav = IdleSav
    /\ vr = IdleVr
    /\ hist = InitHist
    /\ call = NoCall

VerifyNext ==
    \/ VerifyStart
    \/ VerifyField
    \/ VerifyAutoReturn
    \/ VerifyPassEnd
    \/ SavBegin
    \/ SavPick
    \/ SavFallback
    \/ SavFinal

SpecVerify == VerifyInit /\ [][VerifyNext]_vars

\* C31: within one call of verify_and_repair_fields the GST toggle fallback
\* fires at most once, however many of its passes find Consignee still empty
\* after the repair attempts.
C31_VerifyTogglesAtMostOnce ==
    pc \in {"Verify", "AddItem"} => hist.toggles <= 1
(***************************************************************************)
(* _set_content_name_anyhow: the ladder for the Content Name box           *)
(***************************************************************************)
PPC_PAPER == <<"P", "P", "C", " ", "P", "A", "P", "E", "R">>

\* value_has_tokens, lines 615-618
value_has_tokens(value, required_tokens) ==
    {required_tokens[i] : i \in 1..Len(required_tokens)}
        \subseteq {_tokenize_upper(value)[i] : i \in 1..Len(_tokenize_upper(value))}

\* _tokens_ok, lines 786-787
_tokens_ok(value, expected) == value_has_tokens(value, _tokenize_upper(expected))

\* lines 806, 815, 827: the value is the target in any letter case, or has
\* all of its tokens
ValueIsTarget(val, final_text) ==
    upper(strip(val)) = upper(strip(final_text)) \/ _tokens_ok(val, final_text)

\* alternates typed for any target
synonyms_always(final_text) ==
    <<final_text, <<"P", "P", "C", " ", "B", "A", "G", " ", "(", "P", "A", "P", "E", "R", ")">>, <<"P", "P", "C", " ", "P", "A", "P", "E", "R", " ", "B", "A", "G">>, <<"P", "P", "C", " ", "B", "A", "G", " ", "P", "A", "P", "E", "R">>, <<"P", "P", "C", " ", "(", "P", "A", "P", "E", "R", ")", " ", "B", "A", "G">>>>

\* lines 821-823: what the third stage types, the target first
synonyms(final_text) ==
    IF upper(strip(final_text)) = PPC_PAPER
    THEN <<final_text, <<"P", "P", "C", " ", "B", "A", "G", " ", "(", "P", "A", "P", "E", "R", ")">>, <<"P", "P", "C", " ", "P", "A", "P", "E", "R", " ", "B", "A", "G">>, <<"P", "P", "C", " ", "B", "A", "G", " ", "P", "A", "P", "E", "R">>, <<"P", "P", "C", " ", "(", "P", "A", "P", "E", "R", ")", " ", "B", "A", "G">>>>
    ELSE <<final_text>>

\* the targets the callers of lines 1281 and 1292 pass: base and label, a base
\* alone, a label without a letter or digit
LadderTargets == {PPC_PAPER, <<"O", "P", "C", " ", "B", "A", "G">>, <<"P", "P", "C">>, <<"-">>}

\* what _read_el_value may return after text was put into the box
LadderValues(text) ==
    {<<>>, text, <<"p", "p", "c", " ", "p", "a", "p", "e", "r">>, <<"P", "P", "C", " ", "P", "A", "P", "E", "R", " ", "B", "A", "G">>, <<"O", "P", "C", " ", "B", "A", "G">>, <<"O", "P", "C">>}

LadderInit ==
    /\ call \in [fn : {"_set_content_name_anyhow"},
                 final_text : LadderTargets,
                 phase : {"find"},
                 steps : {<<>>},
                 alt : {1},
                 ret : {FALSE}]
    /\ NoPass("ladder")

\* lines 790-800: the box is looked for in every context
LadderFind ==
    /\ call.fn = "_set_content_name_anyhow"
    /\ call.phase = "find"
    /\ \E found \in BOOLEAN :
          call' = IF found THEN [call EXCEPT !.phase = "pick"]
                  ELSE [call EXCEPT !.phase = "ret", !.ret = FALSE]
    /\ UNCHANGED fillVars

\* lines 803-809: type and pick; an empty box is never a success here
LadderPick ==
    /\ call.fn = "_set_content_name_anyhow"
    /\ call.phase = "pick"
    /\ \/ call' = [call EXCEPT !.phase = "raised"]
       \/ \E val \in LadderValues(call.final_text) :
             LET st == [kind |-> "pick", text |-> call.final_text, val |-> val] IN
             call' = IF val # <<>> /\ ValueIsTarget(val, call.final_text)
                     THEN [call EXCEPT !.steps = Append(@, st), !.phase = "ret",
                                       !.ret = TRUE]
                     ELSE [call EXCEPT !.steps = Append(@, st), !.phase = "native"]
    /\ UNCHANGED fillVars

\* lines 812-818: the value is set by script and the events are fired
LadderNative ==
    /\ call.fn = "_set_content_name_anyhow"
    /\ call.phase = "native"
    /\ \/ call' = [call EXCEPT !.phase = "raised"]
       \/ \E val \in LadderValues(call.final_text) :
             LET st == [kind |-> "native", text |-> call.final_text, val |-> val] IN
             call' = IF ValueIsTarget(val, call.final_text)
                     THEN [call EXCEPT !.steps = Append(@, st), !.phase = "ret",
                                       !.ret = TRUE]
                     ELSE [call EXCEPT !.steps = Append(@, st), !.phase = "synonyms"]
    /\ UNCHANGED fillVars

\* lines 824-835: one iteration of "for alt in synonyms", or the end
LadderSynonym ==
    /\ call.fn = "_set_content_name_anyhow"
    /\ call.phase = "synonyms"
    /\ IF call.alt > Len(synonyms(call.final_text))
       THEN call' = [call EXCEPT !.phase = "ret", !.ret = FALSE]
       ELSE LET alt == synonyms(call.final_text)[call.alt] IN
            \/ call' = [call EXCEPT !.phase = "raised"]
            \/ \E val \in LadderValues(alt) :
                  LET st == [kind |-> "pick", text |-> alt, val |-> val] IN
                  call' = IF ValueIsTarget(val, call.final_text)
                          THEN [call EXCEPT !.steps = Append(@, st), !.phase = "ret",
                                            !.ret = TRUE]
                          ELSE [call EXCEPT !.steps = Append(@, st), !.alt = @ + 1]
    /\ UNCHANGED fillVars

LadderNext ==
    \/ LadderFind
    \/ LadderPick
    \/ LadderNative
    \/ LadderSynonym

SpecLadder == LadderInit /\ [][LadderNext]_vars

\* the steps in their order: type-and-pick, native, the target again, and the
\* alternates of PPC PAPER
LadderOrder(final_text) ==
    <<[kind |-> "pick", text |-> final_text],
      [kind |-> "native", text |-> final_text],
      [kind |-> "pick", text |-> final_text]>>
    \o (IF upper(strip(final_text)) = PPC_PAPER
        THEN <<[kind |-> "pick", text |-> <<"P", "P", "C", " ", "B", "A", "G", " ", "(", "P", "A", "P", "E", "R", ")">>],
               [kind |-> "pick", text |-> <<"P", "P", "C", " ", "P", "A", "P", "E", "R", " ", "B", "A", "G">>],
               [kind |-> "pick", text |-> <<"P", "P", "C", " ", "B", "A", "G", " ", "P", "A", "P", "E", "R">>],
               [kind |-> "pick", text |-> <<"P", "P", "C", " ", "(", "P", "A", "P", "E", "R", ")", " ", "B", "A", "G">>]>>
        ELSE <<>>)

StepsInOrder ==
    /\ Len(call.steps) <= Len(LadderOrder(call.final_text))
    /\ \A i \in 1..Len(call.steps) :
          /\ call.steps[i].kind = LadderOrder(call.final_text)[i].kind
          /\ call.steps[i].text = LadderOrder(call.final_text)[i].text

\* C32: the ladder is applied in its order, alternates only for PPC PAPER; the
\* call returns True at the first step after which the value is the target in
\* any letter case or has all of its tokens, and does nothing after it; it
\* returns False when the box is not found or every step failed.
C32_LadderStopsAtFirstMatch ==
    call.fn = "_set_content_name_anyhow" =>
        /\ StepsInOrder
        /\ \A i \in 1..(Len(call.steps) - 1) :
              ~ValueIsTarget(call.steps[i].val, call.final_text)
        /\ (call.phase \notin {"ret", "find"} /\ call.steps # <<>>) =>
              ~ValueIsTarget(call.steps[Len(call.steps)].val, call.final_text)
        /\ (call.phase = "ret" /\ call.ret) =>
              /\ call.steps # <<>>
              /\ ValueIsTarget(call.steps[Len(call.steps)].val, call.final_text)
        /\ (call.phase = "ret" /\ ~call.ret) =>
              /\ Len(call.steps) \in {0, Len(LadderOrder(call.final_text))}
              /\ \A i \in 1..Len(call.steps) :
                    ~ValueIsTarget(call.steps[i].val, call.final_text)

\* a step counts as a success when the value is the target or has its tokens,
\* and, for the first step, when the box is not empty
StepSucceeded(i) ==
    /\ ValueIsTarget(call.steps[i].val, call.final_text)
    /\ i = 1 => call.steps[i].val # <<>>

\* C32, amended: as above, with the first step a success only when it leaves
\* the box non-empty.
C32_LadderStopsAtFirstSuccess ==
    call.fn = "_set_content_name_anyhow" =>
        /\ StepsInOrder
        /\ \A i \in 1..(Len(call.steps) - 1) : ~StepSucceeded(i)
        /\ (call.phase \notin {"ret", "find"} /\ call.steps # <<>>) =>
              ~StepSucceeded(Len(call.steps))
        /\ (call.phase = "ret" /\ call.ret) =>
              /\ call.steps # <<>>
              /\ StepSucceeded(Len(call.steps))
        /\ (call.phase = "ret" /\ ~call.ret) =>
              /\ Len(call.steps) \in {0, Len(LadderOrder(call.final_text))}
              /\ \A i \in 1..Len(call.steps) : ~StepSucceeded(i)

\* PPC PAPER is accepted at the second alternate, in the rendering typed
C32_Witness ==
    /\ call.fn = "_set_content_name_anyhow"
    /\ call.phase = "ret"
    /\ call.ret
    /\ call.final_text = PPC_PAPER
    /\ Len(call.steps) = 5
    /\ call.steps[5].val = <<"P", "P", "C", " ", "P", "A", "P", "E", "R", " ", "B", "A", "G">>
(***************************************************************************)
(* The order of the steps of a fill pass                                   *)
(***************************************************************************)
\* the steps of fill_consignment_form up to the Add Item click, as the claim
\* lists them
StepOrder == FormFields \o <<"Verify", "AddItem">>

\* the place of step p in that order; the second Consignee call belongs to the
\* Consignee step, and everything later comes after Add Item
StepRank(p) ==
    IF p = "ConsigneeToggled" THEN 9
    ELSE IF \E i \in 1..Len(StepOrder) : StepOrder[i] = p
         THEN CHOOSE i \in 1..Len(StepOrder) : StepOrder[i] = p
    ELSE Len(StepOrder) + 1

\* C33: the fields are attempted one after another in the order ConsignmentNo,
\* Date, Source, Destination, Vehicle, EWayBillNo, Consignor, GSTType,
\* Consignee, Delivery Address: the pass moves from a step only to the next
\* one (or returns), no field is touched before its step, so GSTType is set
\* before Consignee is first attempted, and verify-and-repair runs only
\* between Delivery Address and the Add Item click.
C33_FieldsInFixedOrder ==
    [][/\ (pc' # pc /\ pc' # "done" /\ StepRank(pc) <= Len(StepOrder)) =>
              \/ StepRank(pc') = StepRank(pc) + 1
              \/ (pc = "Consignee" /\ pc' = "ConsigneeToggled")
       /\ pc' # "done" =>
              \A f \in hist'.touched \cap Fields : StepRank(f) <= StepRank(pc')
       /\ vr'.stage # "idle" => pc' = "Verify"
       /\ (pc' = "Consignee" /\ Get(data', "GSTType") # <<>>) =>
              "GSTType" \in hist'.touched]_vars

\* all ten fields have been attempted when Add Item is about to be clicked
C33_Witness ==
    /\ pc = "AddItem"
    /\ Fields \subseteq hist.touched
\* C34: process_row_with_driver sets erp_entry_status to 'Completed' or
\* 'Completed AHR' only for a fill without failed fields that reported success
\* ('Completed AHR' exactly when the corrected_json of a FIXED row was used);
\* after a fill with a failed field the status is 'Failed', after a duplicate
\* it is 'Duplicate', and otherwise it stays 'In Progress'.
C34_StatusFollowsFillResult ==
    (call.fn = "main_db_process" /\ call.pos = "loop" /\ call.last.fill.returned) =>
        LET status == call.rows[call.last.doc_id].erp_entry_status
            fill == call.last.fill
        IN /\ status \in {Completed, CompletedAHR} =>
                 (~fill.failed /\ ~fill.duplicate /\ fill.ret)
           /\ fill.duplicate => status = Duplicate
           /\ (fill.failed /\ ~fill.duplicate) => status = Failed
           /\ (~fill.failed /\ ~fill.duplicate /\ ~fill.ret) => status = InProgress

-----------------------------------------------------------------------------
\* Two workers on one table (main.py, claim_one_row and main_db_process).
\* Each worker has its own connection; a row lock taken by the UPDATE of
\* claim_one_row is held until the commit of line 122.

Workers == {1, 2}

NoLock == 0

PoolInit ==
    /\ call \in [fn : {"pool"},
                 status : [DocIds -> {NotStarted, Fixed, Completed}],
                 lock : {[d \in DocIds |-> NoLock]},
                 w : {[w \in Workers |-> [pos |-> "loop", doc_id |-> 0]]}]
    /\ NoPass("pool")

\* a worker is between its claim of a row and its last write to that row
Holding(w) == call.w[w].pos \in {"commit", "process", "except"}

\* lines 441-444 with claim_one_row, 98-121: the oldest claimable row that no
\* other transaction has locked is locked and set to 'In Progress'; with no
\* such row the loop ends
PoolClaim ==
    /\ call.fn = "pool"
    /\ \E w \in Workers :
          /\ call.w[w].pos = "loop"
          /\ LET cte == {d \in DocIds : /\ claimable(call.status[d])
                                        /\ call.lock[d] = NoLock} IN
             IF cte = {}
             THEN call' = [call EXCEPT !.w[w].pos = "end"]
             ELSE LET d == Least(cte) IN
                  call' = [call EXCEPT
                     !.status[d] = InProgress,
                     !.lock[d] = w,
                     !.w[w] = [pos |-> "commit", doc_id |-> d]]
    /\ UNCHANGED fillVars

\* line 122: conn.commit() ends the transaction and releases the row lock
PoolCommit ==
    /\ call.fn = "pool"
    /\ \E w \in Workers :
          /\ call.w[w].pos = "commit"
          /\ call' = [call EXCEPT !.lock[call.w[w].doc_id] = NoLock,
                                  !.w[w].pos = "process"]
    /\ UNCHANGED fillVars

\* lines 450-455: the browser work of the iteration; process_row_with_driver
\* writes 'Failed' (lines 189 and 317) or writes no status, and in both cases
\* the iteration goes on in the handler of line 456
PoolProcess ==
    /\ call.fn = "pool"
    /\ \E w \in Workers :
          /\ call.w[w].pos = "process"
          /\ \/ call' = [call EXCEPT !.status[call.w[w].doc_id] = Failed,
                                     !.w[w].pos = "except"]
             \/ call' = [call EXCEPT !.w[w].pos = "except"]
    /\ UNCHANGED fillVars

\* lines 456-471: the handler writes 'In Progress', the last status this
\* iteration writes to the row, and the loop goes round
PoolExcept ==
    /\ call.fn = "pool"
    /\ \E w \in Workers :
          /\ call.w[w].pos = "except"
          /\ call' = [call EXCEPT !.status[call.w[w].doc_id] = InProgress,
                                  !.w[w] = [pos |-> "loop", doc_id |-> 0]]
    /\ UNCHANGED fillVars

PoolNext ==
    \/ PoolClaim
    \/ PoolCommit
    \/ PoolProcess
    \/ PoolExcept

SpecPool == PoolInit /\ [][PoolNext]_vars

\* C35: with two workers on the same table no document is held by both at
\* the same time: a doc_id a worker has claimed is claimed by no other worker
\* before the first has written the document's final status.
C35_NoDocumentClaimedTwice ==
    call.fn = "pool" =>
        \A v, w \in Workers :
            (v # w /\ Holding(v) /\ Holding(w)) => call.w[v].doc_id # call.w[w].doc_id

-----------------------------------------------------------------------------
\* main_db_process without an iteration limit: the loop of lines 437-471
\* runs until claim_one_row finds no row. The interpreter keeps executing the
\* loop, so the steps of the loop are weakly fair.

LoopInit ==
    /\ WorkerInit
    /\ call.max_iterations = 0
    /\ \A d \in DocIds :
          /\ call.rows[d].extracted_json \in {EmptyJson, [Branch |-> BranchName, branch |-> None]}
          /\ call.rows[d].corrected_json = EmptyJson

LoopNext ==
    \/ ClaimRow
    \/ BuildDriver
    \/ Login
    \/ ProcessMissing
    \/ ProcessBranchFailed
    \/ ProcessNavigateRaises
    \/ ProcessFillRaises
    \/ ProcessFillReturns
    \/ WorkerExcept
    \/ WorkerFinally

SpecLoop == LoopInit /\ [][LoopNext]_vars /\ WF_vars(LoopNext)

\* no row is left that claim_one_row would return
NoPendingRows == \A d \in DocIds : ~claimable(call.rows[d].erp_entry_status)

\* C36: without an iteration limit and over a finite table the loop
\* eventually exits with no pending rows, every eligible row having been
\* claimed and processed, even when the oldest eligible row fails every time
\* (a loop that build_driver's exception has ended is left aside).
C36_LoopDrainsTable ==
    <>(/\ call.fn = "main_db_process"
       /\ call.pos = "end"
       /\ NoPendingRows \/ call.exc = "build_driver")

-----------------------------------------------------------------------------
\* set_autocomplete_verify called on its own, with any target (None, blank or
\* a name), any max_attempts a caller uses, on a page that may misbehave.

SetterTargets == {None, <<>>, <<" ">>, OptExact}

SetterMaxAttempts == {1, 2, 3}

\* the calls made one after another
MaxCalls == 2

\* the call that returned had a blank target and returned False
BlankRefused == sav.value = <<>> /\ ~sav.ret /\ sav.attempt = 0

\* the call that returned failed after typing in each of its max_attempts
\* attempts
ExhaustedTyping ==
    /\ sav.value # <<>>
    /\ ~sav.ret
    /\ sav.attempt = sav.max_attempts
    /\ sav.typings = sav.max_attempts

SetterInit ==
    /\ data = [k \in Keys |-> DocValue(k, Registered)]
    /\ page \in {[g \in Fields |-> IF g = f THEN v ELSE <<>>] :
                    f \in SavFields, v \in SavStartValues}
    /\ hist = [touched |-> {}, calls |-> 0, blank |-> FALSE, exhausted |-> FALSE]
    /\ env = [bad |-> {}, budget |-> MaxFaults]
    /\ pc = "call"
    /\ result = "none"
    /\ GST_TOGGLED_ONCE = FALSE
    /\ CONSIGNEE_TRIED_BOTH = FALSE
    /\ LAST_FILLED_FIELD = NoField
    /\ LAST_ALERT_ACCEPTED = FALSE
    /\ sav = IdleSav
    /\ vr = IdleVr
    /\ call = NoCall

\* lines 411-431: the call is made
SetterCall ==
    /\ pc = "call"
    /\ sav.phase = "idle"
    /\ hist.calls < MaxCalls
    /\ \E f \in SavFields, value \in SetterTargets, max_attempts \in SetterMaxAttempts :
          sav' = SavCall(f, value, VerifyMode(f), max_attempts)
    /\ hist' = [hist EXCEPT !.calls = @ + 1]
    /\ UNCHANGED <<data, page, env, pc, result, flags, vr>>
    /\ UNCHANGED call

\* the call has returned to its caller, which may call again
SetterReturn ==
    /\ pc = "call"
    /\ sav.phase = "ret"
    /\ hist' = [hist EXCEPT !.blank = @ \/ BlankRefused,
                            !.exhausted = @ \/ ExhaustedTyping]
    /\ sav' = IdleSav
    /\ UNCHANGED <<data, page, env, pc, result, flags, vr>>
    /\ UNCHANGED call

SetterNext ==
    \/ SetterCall
    \/ SavBegin
    \/ SavPick
    \/ SavFallback
    \/ SavFinal
    \/ SetterReturn

SpecSetter == SetterInit /\ [][SetterNext]_vars

\* where a call of set_autocomplete_verify stands: the attempt and the place
\* in it (the final read comes after the last attempt, the return last)
SavRank ==
    IF sav.phase = "idle" THEN 0
    ELSE 10 * sav.attempt
         + (CASE sav.phase = "begin" -> 1
              [] sav.phase = "pick" -> 2
              [] sav.phase = "fallback" -> 3
              [] sav.phase = "final" -> 4
              [] sav.phase = "ret" -> 5)

\* the counters of a call: at most max_attempts attempts, at most one typing
\* in each, and a call with a blank target has returned False at once
SavBounded ==
    sav.phase # "idle" =>
        /\ sav.attempt <= sav.max_attempts
        /\ sav.typings <= sav.attempt
        /\ sav.value = <<>> =>
              /\ sav.phase = "ret"
              /\ ~sav.ret
              /\ sav.attempt = 0
              /\ sav.typings = 0

\* C37: set_autocomplete_verify ends after at most max_attempts attempts and
\* types the value at most once per attempt; every step of a running call,
\* an exception inside an attempt included, moves the same call forward to its
\* next place or its next attempt; a call with a blank target returns False
\* and the page, the page's record and the flags are as before.
C37_SetterBoundedAttempts ==
    [][/\ SavBounded
       /\ SavBounded'
       /\ sav.phase \notin {"idle", "ret"} =>
             /\ sav'.phase # "idle"
             /\ sav'.field = sav.field
             /\ sav'.max_attempts = sav.max_attempts
             /\ SavRank' > SavRank
             /\ sav'.typings \in {sav.typings, sav.typings + 1}
             /\ pc' = pc
       /\ (sav.phase = "idle" /\ sav'.phase = "ret") =>
             /\ sav'.value = <<>>
             /\ ~sav'.ret
             /\ page' = page
             /\ env' = env
             /\ flags' = flags
             /\ hist'.touched = hist.touched
      ]_vars

\* a call with a blank target has returned, and so has a call that failed
\* after typing in each of its max_attempts attempts on a misbehaving field
C37_Witness ==
    /\ pc = "call"
    /\ hist.blank
    /\ hist.exhausted
    /\ env.bad # {}

-----------------------------------------------------------------------------
\* a call of set_autocomplete_verify for Consignee has returned False
ConsigneeFailed ==
    /\ pc \in {"Consignee", "ConsigneeToggled"}
    /\ sav.phase = "ret"
    /\ ~sav.ret

\* C38: when set_autocomplete_verify returns False for a non-blank target,
\* LAST_ALERT_ACCEPTED is False; so after a failed Consignee call the step
\* never counts Consignee as set on account of an alert: with an empty box
\* after the first call the GST type is toggled, and after a failed call that
\* followed the toggle Consignee is left unconfirmed.
C38_FailedCallHasNoAlert ==
    [][/\ SavFailed => ~LAST_ALERT_ACCEPTED
       /\ SavFailed' => ~LAST_ALERT_ACCEPTED'
       /\ (ConsigneeFailed /\ pc = "Consignee" /\ strip(page'["Consignee"]) = <<>>) =>
             /\ hist'.toggles = hist.toggles + 1
             /\ GST_TOGGLED_ONCE'
             /\ "Consignee" \notin hist'.accepted
             /\ LAST_FILLED_FIELD' = LAST_FILLED_FIELD
       /\ (ConsigneeFailed /\ pc = "ConsigneeToggled") =>
             /\ "Consignee" \in hist'.notConfirmed
             /\ "Consignee" \notin hist'.accepted
             /\ LAST_FILLED_FIELD' = LAST_FILLED_FIELD
      ]_vars

\* the first Consignee call failed on a misbehaving page, the box was empty,
\* the GST type has been toggled and the second call begins
C38_Witness ==
    /\ pc = "ConsigneeToggled"
    /\ hist.toggles = 1
    /\ "Consignee" \in env.bad
    /\ page["Consignee"] = <<>>
    /\ sav.phase = "begin"
    /\ sav.attempt = 1

-----------------------------------------------------------------------------
\* the keys verify_and_repair_fields works through in this call
VerifiedKeys ==
    IF vr.stage = "idle" THEN {}
    ELSE {vr.fields[i].key : i \in DOMAIN vr.fields}

\* C39: whichever way the Consignee step of fill_consignment_form ends
\* (confirmed, fuzzy-accepted, low similarity, toggled, no Consignee in the
\* document), CONSIGNEE_TRIED_BOTH is True after it; so the verify-and-repair
\* pass of fill_consignment_form does not have Consignee among its fields,
\* makes no call for the Consignee box, leaves the box and the document as
\* they are and does not toggle the GST type.
C39_VerifyLeavesConsigneeAlone ==
    [][/\ pc' \in {"Delivery Address", "Verify", "AddItem"} => CONSIGNEE_TRIED_BOTH'
       /\ pc = "Verify" =>
             /\ "Consignee" \notin VerifiedKeys'
             /\ sav'.phase # "idle" => sav'.field # "Consignee"
             /\ page'["Consignee"] = page["Consignee"]
             /\ data' = data
             /\ hist'.toggles = hist.toggles
             /\ GST_TOGGLED_ONCE' = GST_TOGGLED_ONCE
      ]_vars

\* verify-and-repair is at work on a form whose Consignee box is empty, for a
\* document that names a Consignee, after the step toggled the GST type
C39_Witness ==
    /\ pc = "Verify"
    /\ vr.stage = "check"
    /\ vr.i > 1
    /\ Get(data, "Consignee") # <<>>
    /\ strip(page["Consignee"]) = <<>>
    /\ hist.toggles = 1
    /\ CONSIGNEE_TRIED_BOTH

====
